---- MODULE Spec2Model ----
(***************************************************************************)
(* tiny-fs: a block file system (SuperBlock | inode bitmap | inode area |  *)
(* data bitmap | data area) over a 16-entry block cache.                   *)
(*                                                                         *)
(* Blocks are modelled byte for byte (512-byte tuples); the typed views    *)
(* the code takes of a cache buffer (SuperBlock, DiskInode, DirEntry,      *)
(* IndirectBlock, BitmapBlock) are little-endian decodings of those bytes. *)
(* Every operation is threaded through a "machine" record                  *)
(*    m = [queue, dev, held, panic, maxheld, inverted, dropped]            *)
(* queue : BlockCacheManager.queue, in order                               *)
(* dev   : the block device (blocks that are not all zero)                 *)
(* held  : block ids whose Arc<Mutex<BlockCache>> the running operation    *)
(*         still holds (their strong count is above 1)                     *)
(* panic : "" or the message of the panic that ended the operation         *)
(* maxheld : the largest number of handles held at once                    *)
(* inverted : the manager mutex was locked by a caller that held the mutex *)
(*         of a BlockCache                                                 *)
(* dropped : ids of the entries that left the pool with a buffer that      *)
(*         differs from the device block (bytes a modify stored, lost)     *)
(***************************************************************************)
EXTENDS Integers, Sequences, FiniteSets, TLC

(* ------------------------------ constants ------------------------------ *)
BLOCK_SZ == 512
BLOCK_CACHE_SIZE == 16
BLOCK_BITS == BLOCK_SZ * 8
TFS_MAGIC == 998244353
INODE_DIRECT_COUNT == 28
INODE_INDIRECT1_COUNT == BLOCK_SZ \div 4
INODE_INDIRECT2_COUNT == INODE_INDIRECT1_COUNT * INODE_INDIRECT1_COUNT
DIRECT_BOUND == INODE_DIRECT_COUNT
INDIRECT1_BOUND == DIRECT_BOUND + INODE_INDIRECT1_COUNT
INDIRECT2_BOUND == INDIRECT1_BOUND + INODE_INDIRECT2_COUNT
NAME_LENGTH_LIMIT == 27
DIR_ENTRY_SZ == 32
\* core::mem::size_of::<DiskInode>(): 4 + 28*4 + 4 + 4 + 1 (+3 padding), repr(C)
DISK_INODE_SZ == 128
\* the packer's image: f.set_len(16 * 2048 * 512), create(.., 16 * 2048, 1)
DEVICE_BLOCKS == 16 * 2048
\* DiskInodeType discriminants
TYPE_FILE == 0
TYPE_DIRECTORY == 1

NoPanic == ""

Min(a, b) == IF a < b THEN a ELSE b
Max(a, b) == IF a < b THEN b ELSE a

(* ------------------------------- bytes --------------------------------- *)
ZeroBlock == [i \in 1..BLOCK_SZ |-> 0]

\* a u32 as stored in a cache buffer (little endian)
U32Bytes(v) ==
  << v % 256, (v \div 256) % 256, (v \div 65536) % 256, (v \div 16777216) % 256 >>

GetU32(blk, off) ==
  blk[off + 1] + 256 * blk[off + 2] + 65536 * blk[off + 3] + 16777216 * blk[off + 4]

\* dst[off .. off+len) = bytes   (copy_from_slice / a field store)
Patch(blk, off, bytes) ==
  [i \in 1..Len(blk) |->
     IF off < i /\ i <= off + Len(bytes) THEN bytes[i - off] ELSE blk[i]]

SetU32(blk, off, v) ==
  [blk EXCEPT ![off + 1] = v % 256,
              ![off + 2] = (v \div 256) % 256,
              ![off + 3] = (v \div 65536) % 256,
              ![off + 4] = (v \div 16777216) % 256]

(* --------------------------- block device ------------------------------ *)
\* BlockFile::read_block; a read past the end of the image file returns
\* fewer than BLOCK_SZ bytes and the assert_eq! panics (see GetBlockCache).
read_block(dev, block_id) ==
  IF block_id \in DOMAIN dev THEN dev[block_id] ELSE ZeroBlock

\* BlockFile::write_block
write_block(dev, block_id, buf) ==
  IF buf = ZeroBlock
    THEN [i \in DOMAIN dev \ {block_id} |-> dev[i]]
    ELSE [i \in DOMAIN dev \cup {block_id} |-> IF i = block_id THEN buf ELSE dev[i]]

(* ----------------------------- BlockCache ------------------------------ *)
BlockCache_new(dev, block_id) ==
  [block_id |-> block_id, cache |-> read_block(dev, block_id), modified |-> FALSE]

\* BlockCache::modify: hands f a mutable view; `cache` is the buffer after f
BlockCache_modify(e, cache) == [e EXCEPT !.cache = cache]

\* BlockCache::sync, as (device, entry) after the call
BlockCache_sync(dev, e) ==
  IF e.modified
    THEN [dev |-> write_block(dev, e.block_id, e.cache),
          e   |-> [e EXCEPT !.modified = FALSE]]
    ELSE [dev |-> dev, e |-> e]

\* impl Drop for BlockCache: the device after the entry is dropped
BlockCache_drop(dev, e) == BlockCache_sync(dev, e).dev

(* -------------------------- BlockCacheManager -------------------------- *)
Panic(m, msg) == IF m.panic = NoPanic THEN [m EXCEPT !.panic = msg] ELSE m

Ok(m) == m.panic = NoPanic

\* position of block_id in the queue, 0 when absent (queue.iter().find)
IndexOf(queue, block_id) ==
  IF \E i \in 1..Len(queue) : queue[i].block_id = block_id
    THEN CHOOSE i \in 1..Len(queue) :
           /\ queue[i].block_id = block_id
           /\ \A j \in 1..(i - 1) : queue[j].block_id # block_id
    ELSE 0

InHeld(held, block_id) == \E i \in 1..Len(held) : held[i] = block_id

\* eviction that takes the oldest entry whatever its strong_count
Victim_oldest(queue, held) == IF Len(queue) > 0 THEN 1 ELSE 0

\* first entry with Arc::strong_count == 1, 0 when every entry is held
Victim(queue, held) ==
  IF \E i \in 1..Len(queue) : ~InHeld(held, queue[i].block_id)
    THEN CHOOSE i \in 1..Len(queue) :
           /\ ~InHeld(held, queue[i].block_id)
           /\ \A j \in 1..(i - 1) : InHeld(held, queue[j].block_id)
    ELSE 0

RemoveAt(s, i) == SubSeq(s, 1, i - 1) \o SubSeq(s, i + 1, Len(s))

\* the caller takes the returned Arc and locks it: spin::Mutex is not
\* re-entrant, so locking a BlockCache this operation already holds spins
\* forever
Acquire(m, block_id) ==
  IF InHeld(m.held, block_id)
    THEN Panic(m, "hang: BlockCache mutex locked twice")
    ELSE [m EXCEPT !.held = Append(@, block_id),
                   !.maxheld = Max(@, Len(m.held) + 1)]

\* a caller that keeps every Arc it was handed
Release_kept(m, block_id) == m

\* drop of the temporary Arc at the end of the statement
Release(m, block_id) ==
  IF Ok(m) /\ Len(m.held) > 0 /\ m.held[Len(m.held)] = block_id
    THEN [m EXCEPT !.held = SubSeq(@, 1, Len(@) - 1)]
    ELSE m

\* self.queue.drain(idx..=idx): the entry is dropped
Evict(m, idx) ==
  [m EXCEPT !.queue = RemoveAt(@, idx),
            !.dev = BlockCache_drop(@, m.queue[idx]),
            !.dropped = IF read_block(BlockCache_drop(m.dev, m.queue[idx]),
                                      m.queue[idx].block_id) = m.queue[idx].cache
                          THEN @ ELSE @ \cup {m.queue[idx].block_id}]

\* BlockCache::new + push_back; the Arc is handed to the caller, who locks it
Insert(m, block_id) ==
  IF block_id >= DEVICE_BLOCKS
    THEN Panic(m, "Not a complete block!")
    ELSE Acquire([m EXCEPT !.queue = Append(@, BlockCache_new(m.dev, block_id))],
                 block_id)

\* BLOCK_CACHE_MANAGER.lock(): the manager mutex is free in a program of one
\* thread; the machine notes an acquisition made while the caller holds the
\* mutex of a BlockCache
Manager_lock(m) == [m EXCEPT !.inverted = @ \/ m.held # <<>>]

\* get_block_cache with the capacity test of block_cache.rs:109 off by one:
\* the pool is taken to be full at BLOCK_CACHE_SIZE + 1 entries
BlockCacheManager_get_block_cache_late(m, block_id) ==
  IF IndexOf(m.queue, block_id) # 0 THEN Acquire(m, block_id)
  ELSE IF Len(m.queue) < BLOCK_CACHE_SIZE + 1 THEN Insert(m, block_id)
  ELSE IF Victim(m.queue, m.held) = 0 THEN Panic(m, "Run out of BlockCache!")
  ELSE Insert(Evict(m, Victim(m.queue, m.held)), block_id)

\* BlockCacheManager::get_block_cache, and .lock() on the Arc it returns
BlockCacheManager_get_block_cache(m, block_id) ==
  IF IndexOf(m.queue, block_id) # 0 THEN Acquire(m, block_id)
  ELSE IF Len(m.queue) < BLOCK_CACHE_SIZE THEN Insert(m, block_id)
  ELSE IF Victim(m.queue, m.held) = 0 THEN Panic(m, "Run out of BlockCache!")
  ELSE Insert(Evict(m, Victim(m.queue, m.held)), block_id)

\* get_block_cache(block_id, block_device).lock()
GetBlockCache(m, block_id) ==
  IF ~Ok(m) THEN m
  ELSE BlockCacheManager_get_block_cache(Manager_lock(m), block_id)

\* the buffer of the cache entry for block_id (the entry is in the queue)
CacheOf(m, block_id) == m.queue[IndexOf(m.queue, block_id)].cache

\* .modify(..) on the held entry leaves `cache` in its buffer
Modify(m, block_id, cache) ==
  IF ~Ok(m) THEN m
  ELSE [m EXCEPT !.queue[IndexOf(m.queue, block_id)] = BlockCache_modify(@, cache)]

\* Modify that also applies to an operation that has panicked: the closure
\* wrote through the &mut view before the panic
Store(m, block_id, cache) ==
  [m EXCEPT !.queue[IndexOf(m.queue, block_id)] = BlockCache_modify(@, cache)]

RECURSIVE SyncFrom(_, _, _)
SyncFrom(queue, dev, i) ==
  IF i > Len(queue) THEN [queue |-> queue, dev |-> dev]
  ELSE SyncFrom([queue EXCEPT ![i] = BlockCache_sync(dev, queue[i]).e],
                BlockCache_sync(dev, queue[i]).dev, i + 1)

\* for (_, cache) in manager.queue.iter() { cache.lock().sync() }
sync_all_locked(m) ==
  [m EXCEPT !.queue = SyncFrom(m.queue, m.dev, 1).queue,
            !.dev = SyncFrom(m.queue, m.dev, 1).dev]

\* block_cache_sync_all
block_cache_sync_all(m) ==
  IF ~Ok(m) THEN m ELSE sync_all_locked(Manager_lock(m))

\* get_block_cache(block_id).lock().read(0, |b| *b): [m, blk]
ReadOf(m1, block_id) ==
  [m |-> Release(m1, block_id),
   blk |-> IF Ok(m1) THEN CacheOf(m1, block_id) ELSE ZeroBlock]

read_cache(m, block_id) == ReadOf(GetBlockCache(m, block_id), block_id)

(* ------------------------------- Bitmap -------------------------------- *)
Bitmap_new(start_block_id, blocks) ==
  [start_block_id |-> start_block_id, blocks |-> blocks]

Bitmap_maxium(bm) == bm.blocks * BLOCK_BITS

Pow2(t) == CASE t = 0 -> 1 [] t = 1 -> 2 [] t = 2 -> 4 [] t = 3 -> 8
             [] t = 4 -> 16 [] t = 5 -> 32 [] t = 6 -> 64 [] t = 7 -> 128

BitOf(byte, t) == (byte \div Pow2(t)) % 2

\* a [u64; 64] word is u64::MAX iff its 8 bytes are all 0xff
WordFull(blk, w) == \A k \in 0..7 : blk[8 * w + k + 1] = 255

\* first byte of word w that is not 0xff (the word is not u64::MAX)
FirstOpenByte(blk, w) ==
  CHOOSE k \in 0..7 :
    /\ blk[8 * w + k + 1] # 255
    /\ \A j \in 0..(k - 1) : blk[8 * w + j + 1] = 255

\* u8::trailing_ones of a byte that is not 0xff
ByteTrailingOnes(b) ==
  CHOOSE t \in 0..7 :
    /\ BitOf(b, t) = 0
    /\ \A u \in 0..(t - 1) : BitOf(b, u) = 1

\* u64::trailing_ones of word w (which is not u64::MAX)
TrailingOnes(blk, w) ==
  8 * FirstOpenByte(blk, w)
    + ByteTrailingOnes(blk[8 * w + FirstOpenByte(blk, w) + 1])

\* a search that takes the last word that is not u64::MAX
FirstOpenWord_last(blk) ==
  IF \E w \in 0..63 : ~WordFull(blk, w)
    THEN CHOOSE w \in 0..63 :
           /\ ~WordFull(blk, w)
           /\ \A v \in (w + 1)..63 : WordFull(blk, v)
    ELSE -1

\* the first word that is not u64::MAX, -1 when there is none
FirstOpenWord(blk) ==
  IF \E w \in 0..63 : ~WordFull(blk, w)
    THEN CHOOSE w \in 0..63 :
           /\ ~WordFull(blk, w)
           /\ \A v \in 0..(w - 1) : WordFull(blk, v)
    ELSE -1

\* bit `inner_pos` of word `bits64_pos`
WordBit(blk, bits64_pos, inner_pos) ==
  BitOf(blk[8 * bits64_pos + (inner_pos \div 8) + 1], inner_pos % 8)

\* word |= 1 << inner_pos
WordSetBit(blk, bits64_pos, inner_pos) ==
  [blk EXCEPT ![8 * bits64_pos + (inner_pos \div 8) + 1] =
     IF BitOf(@, inner_pos % 8) = 1 THEN @ ELSE @ + Pow2(inner_pos % 8)]

\* word -= 1 << inner_pos
WordSubBit(blk, bits64_pos, inner_pos) ==
  [blk EXCEPT ![8 * bits64_pos + (inner_pos \div 8) + 1] = @ - Pow2(inner_pos % 8)]

RECURSIVE Bitmap_alloc_from(_, _, _)
RECURSIVE Bitmap_alloc_in(_, _, _, _)

\* the closure Bitmap::alloc passes to modify, on the locked block `id`:
\* [m, pos]
Bitmap_alloc_in(m1, bm, inner_id, id) ==
  IF ~Ok(m1) THEN [m |-> m1, pos |-> -1]
  ELSE IF FirstOpenWord(CacheOf(m1, id)) >= 0
    THEN [m |-> Release(Modify(m1, id,
                          WordSetBit(CacheOf(m1, id),
                                     FirstOpenWord(CacheOf(m1, id)),
                                     TrailingOnes(CacheOf(m1, id),
                                                  FirstOpenWord(CacheOf(m1, id))))),
                        id),
          pos |-> inner_id * BLOCK_BITS + FirstOpenWord(CacheOf(m1, id)) * 64
                    + TrailingOnes(CacheOf(m1, id), FirstOpenWord(CacheOf(m1, id)))]
    ELSE Bitmap_alloc_from(Release(Modify(m1, id, CacheOf(m1, id)), id), bm,
                           inner_id + 1)

\* for inner_id in from..self.blocks { .. }
Bitmap_alloc_from(m, bm, inner_id) ==
  IF ~Ok(m) \/ inner_id >= bm.blocks THEN [m |-> m, pos |-> -1]
  ELSE Bitmap_alloc_in(GetBlockCache(m, inner_id + bm.start_block_id), bm,
                       inner_id, inner_id + bm.start_block_id)

\* Bitmap::alloc: [m, pos], pos = -1 for None
Bitmap_alloc(m, bm) == Bitmap_alloc_from(m, bm, 0)

\* Bitmap::decomposition.  A negative `bit` stands for the usize 2^32 + bit
\* that a wrapped u32 subtraction leaves (2^32 is a multiple of BLOCK_BITS).
decomposition(bit) ==
  [block_pos |-> IF bit < 0 THEN 1048576 + (bit \div BLOCK_BITS)
                            ELSE bit \div BLOCK_BITS,
   bits64_pos |-> (bit % BLOCK_BITS) \div 64,
   inner_pos |-> (bit % BLOCK_BITS) % 64]

\* a dealloc closure without the assertion, that clears the bit if it is set
Bitmap_dealloc_in_unchecked(m1, id, d) ==
  IF ~Ok(m1) THEN m1
  ELSE IF WordBit(CacheOf(m1, id), d.bits64_pos, d.inner_pos) = 0
    THEN Release(Modify(m1, id, CacheOf(m1, id)), id)
  ELSE Release(Modify(m1, id,
                 WordSubBit(CacheOf(m1, id), d.bits64_pos, d.inner_pos)), id)

\* the closure Bitmap::dealloc passes to modify, on the locked block `id`
Bitmap_dealloc_in(m1, id, d) ==
  IF ~Ok(m1) THEN m1
  ELSE IF WordBit(CacheOf(m1, id), d.bits64_pos, d.inner_pos) = 0
    THEN Panic(m1, "assertion failed: bitmap bit not allocated")
  ELSE Release(Modify(m1, id,
                 WordSubBit(CacheOf(m1, id), d.bits64_pos, d.inner_pos)), id)

\* Bitmap::dealloc
Bitmap_dealloc(m, bm, bit) ==
  IF ~Ok(m) THEN m
  ELSE Bitmap_dealloc_in(GetBlockCache(m, bm.start_block_id + decomposition(bit).block_pos),
                         bm.start_block_id + decomposition(bit).block_pos,
                         decomposition(bit))

(* ------------------------------ DiskInode ------------------------------ *)
\* the DiskInode view of the 128 bytes at `off` of an inode-area block
DiskInodeAt(blk, off) ==
  [size |-> GetU32(blk, off),
   direct |-> [i \in 1..INODE_DIRECT_COUNT |-> GetU32(blk, off + 4 * i)],
   indirect1 |-> GetU32(blk, off + 4 + 4 * INODE_DIRECT_COUNT),
   indirecr2 |-> GetU32(blk, off + 8 + 4 * INODE_DIRECT_COUNT),
   type_ |-> blk[off + 12 + 4 * INODE_DIRECT_COUNT + 1]]

\* the block after the fields of `di` are stored at `off` (padding untouched)
StoreDiskInode(blk, off, di) ==
  LET word(w) == IF w = 0 THEN di.size
                 ELSE IF w <= INODE_DIRECT_COUNT THEN di.direct[w]
                 ELSE IF w = INODE_DIRECT_COUNT + 1 THEN di.indirect1
                 ELSE di.indirecr2
      last == 12 + 4 * INODE_DIRECT_COUNT
  IN [i \in 1..Len(blk) |->
        IF i - 1 < off \/ i - 1 > off + last THEN blk[i]
        ELSE IF i - 1 = off + last THEN di.type_
        ELSE U32Bytes(word((i - 1 - off) \div 4))[((i - 1 - off) % 4) + 1]]

\* DiskInode::initialize
DiskInode_initialize(di, type_) ==
  [size |-> 0,
   direct |-> [i \in 1..INODE_DIRECT_COUNT |-> 0],
   indirect1 |-> 0,
   indirecr2 |-> 0,
   type_ |-> type_]

is_dir(di) == di.type_ = TYPE_DIRECTORY
is_file(di) == di.type_ = TYPE_FILE

_data_blocks(size) == (size + BLOCK_SZ - 1) \div BLOCK_SZ

data_blocks(di) == _data_blocks(di.size)

\* DiskInode::total_blocks
DiskInode_total_blocks(size) ==
  LET db == _data_blocks(size)
      t1 == IF db > INODE_DIRECT_COUNT THEN db + 1 ELSE db
  IN IF db > INDIRECT1_BOUND
       THEN t1 + 1 + ((db - INDIRECT1_BOUND + INODE_INDIRECT1_COUNT - 1)
                        \div INODE_INDIRECT1_COUNT)
       ELSE t1

\* an entry of an IndirectBlock ([u32; BLOCK_SZ / 4])
Entry(blk, i) == GetU32(blk, 4 * i)
SetEntry(blk, i, v) == SetU32(blk, 4 * i, v)

\* the value a closure returns with the machine: entry i of the block read
EntryOf(r, i) == [m |-> r.m, id |-> Entry(r.blk, i)]

UnwrapNone == "called Option::unwrap() on a None value"
SubOverflow == "attempt to subtract with overflow"
IndexOOB == "index out of bounds"
AssertEq == "assertion failed: left == right"

\* get_block_id past INDIRECT1_BOUND, with the indirect2 block read (r):
\* indirect2_block[i / 128], then indirect1_block[i % 128]
get_block_id_indirect2(r, i) ==
  IF ~Ok(r.m) THEN [m |-> r.m, id |-> 0]
  ELSE IF i \div INODE_INDIRECT1_COUNT >= INODE_INDIRECT1_COUNT
    THEN [m |-> Panic(r.m, IndexOOB), id |-> 0]
  ELSE EntryOf(read_cache(r.m, Entry(r.blk, i \div INODE_INDIRECT1_COUNT)),
               i % INODE_INDIRECT1_COUNT)

\* DiskInode::get_block_id: [m, id]
get_block_id(m, di, inner_id) ==
  IF ~Ok(m) THEN [m |-> m, id |-> 0]
  ELSE IF inner_id < INODE_DIRECT_COUNT
    THEN [m |-> m, id |-> di.direct[inner_id + 1]]
  ELSE IF inner_id < INDIRECT1_BOUND
    THEN EntryOf(read_cache(m, di.indirect1), inner_id - INODE_DIRECT_COUNT)
  ELSE get_block_id_indirect2(read_cache(m, di.indirecr2),
                              inner_id - INDIRECT1_BOUND)

\* end of the block that holds byte `start`, capped by `end`
BlockEnd(start, end) == Min((start \div BLOCK_SZ + 1) * BLOCK_SZ, end)

RECURSIVE read_loop(_, _, _, _, _)
RECURSIVE read_data_block(_, _, _, _, _)
RECURSIVE read_copy(_, _, _, _, _)

\* the closure of read_at's loop, with the data block read (r): copy, then
\* break or move to the next block
read_copy(r, di, start, end, data) ==
  IF ~Ok(r.m) THEN [m |-> r.m, data |-> data]
  ELSE IF BlockEnd(start, end) = end
    THEN [m |-> r.m,
          data |-> data \o SubSeq(r.blk, (start % BLOCK_SZ) + 1,
                                  (start % BLOCK_SZ) + (end - start))]
  ELSE read_loop(r.m, di, BlockEnd(start, end), end,
                 data \o SubSeq(r.blk, (start % BLOCK_SZ) + 1,
                                (start % BLOCK_SZ) + (BlockEnd(start, end) - start)))

\* get_block_cache(get_block_id(start_block)).lock().read(..), g = [m, id]
read_data_block(g, di, start, end, data) ==
  read_copy(read_cache(g.m, g.id), di, start, end, data)

\* the per-block loop of DiskInode::read_at: [m, data]
read_loop(m, di, start, end, data) ==
  IF ~Ok(m) THEN [m |-> m, data |-> data]
  ELSE read_data_block(get_block_id(m, di, start \div BLOCK_SZ), di, start, end,
                       data)

\* read_size and the bytes copied to buf[..read_size]
ReadResult(r) == [m |-> r.m, n |-> Len(r.data), data |-> r.data]

\* DiskInode::read_at: [m, n, data]; data are the n bytes copied to buf[..n]
DiskInode_read_at(m, di, offset, buflen) ==
  IF ~Ok(m) \/ offset >= Min(offset + buflen, di.size)
    THEN [m |-> m, n |-> 0, data |-> <<>>]
    ELSE ReadResult(read_loop(m, di, offset, Min(offset + buflen, di.size), <<>>))

RECURSIVE write_loop(_, _, _, _, _, _)
RECURSIVE write_data_block(_, _, _, _, _, _)
RECURSIVE write_copy(_, _, _, _, _, _, _)

\* the data block `id` after the closure of write_at's loop
WrittenBlock(m1, id, buf, start, end, write_size) ==
  Release(Modify(m1, id,
            Patch(CacheOf(m1, id), start % BLOCK_SZ,
                  SubSeq(buf, write_size + 1,
                         write_size + (BlockEnd(start, end) - start)))), id)

\* the closure of write_at's loop on the locked data block `id`, then break
\* or move to the next block
write_copy(m1, id, di, buf, start, end, write_size) ==
  IF ~Ok(m1) THEN [m |-> m1, n |-> write_size]
  ELSE IF BlockEnd(start, end) = end
    THEN [m |-> WrittenBlock(m1, id, buf, start, end, write_size),
          n |-> write_size + (end - start)]
  ELSE write_loop(WrittenBlock(m1, id, buf, start, end, write_size), di, buf,
                  BlockEnd(start, end), end,
                  write_size + (BlockEnd(start, end) - start))

\* get_block_cache(get_block_id(start_block)).lock().modify(..), g = [m, id]
write_data_block(g, di, buf, start, end, write_size) ==
  write_copy(GetBlockCache(g.m, g.id), g.id, di, buf, start, end, write_size)

\* the per-block loop of DiskInode::write_at: [m, n]
write_loop(m, di, buf, start, end, write_size) ==
  IF ~Ok(m) THEN [m |-> m, n |-> write_size]
  ELSE write_data_block(get_block_id(m, di, start \div BLOCK_SZ), di, buf,
                        start, end, write_size)

\* DiskInode::write_at: [m, n]
DiskInode_write_at(m, di, offset, buf) ==
  IF ~Ok(m) THEN [m |-> m, n |-> 0]
  ELSE IF offset > Min(offset + Len(buf), di.size)
    THEN [m |-> Panic(m, "assertion failed: start <= end"), n |-> 0]
  ELSE write_loop(m, di, buf, offset, Min(offset + Len(buf), di.size), 0)

(* ---------------------- DiskInode::increase_size ----------------------- *)
\* while current_blocks < limit { direct[current_blocks] = iter.next().unwrap() }
\* p counts the ids taken from new_blocks: [direct, current, p, ok]
RECURSIVE fill_direct(_, _, _, _, _)
fill_direct(direct, current, limit, new_blocks, p) ==
  IF current >= limit
    THEN [direct |-> direct, current |-> current, p |-> p, ok |-> TRUE]
  ELSE IF p >= Len(new_blocks)
    THEN [direct |-> direct, current |-> current, p |-> p, ok |-> FALSE]
  ELSE fill_direct([direct EXCEPT ![current + 1] = new_blocks[p + 1]],
                   current + 1, limit, new_blocks, p + 1)

\* while current_blocks < limit { indirect1_block[current_blocks] = next }
\* the loop stores n = min(limit - current, ids left) entries, entry
\* current + k taking new_blocks[p + 1 + k]; ok is FALSE when the ids ran
\* out before the limit
fill_indirect1_n(blk, current, n, limit, new_blocks, p) ==
  [blk |-> [i \in 1..BLOCK_SZ |->
              IF 4 * current < i /\ i <= 4 * (current + n)
                THEN U32Bytes(new_blocks[p + 1 + ((i - 1) \div 4) - current])[((i - 1) % 4) + 1]
                ELSE blk[i]],
   current |-> current + n, p |-> p + n, ok |-> current + n >= limit]

fill_indirect1(blk, current, limit, new_blocks, p) ==
  fill_indirect1_n(blk, current, Max(0, Min(limit - current, Len(new_blocks) - p)),
                   limit, new_blocks, p)

RECURSIVE fill_indirect2(_, _, _, _, _, _, _, _)
RECURSIVE fill_indirect2_in(_, _, _, _, _, _, _, _)

\* the inner closure of the indirect2 loop, on the locked block
\* indirect2_block[0]:  indirect1_block[b0] = next;  then move b0
fill_indirect2_in(m1, blk2, a0, b0, a1, b1, new_blocks, p) ==
  IF ~Ok(m1) THEN [m |-> m1, blk2 |-> blk2]
  ELSE IF p >= Len(new_blocks)
    THEN [m |-> Panic(m1, UnwrapNone), blk2 |-> blk2]
  ELSE IF b0 >= INODE_INDIRECT1_COUNT
    THEN [m |-> Panic(m1, IndexOOB), blk2 |-> blk2]
  ELSE fill_indirect2(
         Release(Modify(m1, Entry(blk2, 0),
                   SetEntry(CacheOf(m1, Entry(blk2, 0)), b0, new_blocks[p + 1])),
                 Entry(blk2, 0)),
         blk2,
         IF b0 + 1 = INODE_INDIRECT1_COUNT THEN a0 + 1 ELSE a0,
         IF b0 + 1 = INODE_INDIRECT1_COUNT THEN 0 ELSE b0 + 1,
         a1, b1, new_blocks, p + 1)

\* the loop over the indirect2 tree (layout.rs 156-172), run with the
\* indirect2 block held; blk2 is its buffer: [m, blk2]
fill_indirect2(m, blk2, a0, b0, a1, b1, new_blocks, p) ==
  IF ~Ok(m) \/ ~(a0 < a1 \/ (a0 = a1 /\ b0 < b1)) THEN [m |-> m, blk2 |-> blk2]
  ELSE IF b0 = 0 /\ p >= Len(new_blocks)
    THEN [m |-> Panic(m, UnwrapNone), blk2 |-> blk2]
  ELSE IF b0 = 0 /\ a0 >= INODE_INDIRECT1_COUNT
    THEN [m |-> Panic(m, IndexOOB), blk2 |-> blk2]
  ELSE IF b0 = 0
    THEN fill_indirect2_in(
           GetBlockCache(m, Entry(SetEntry(blk2, a0, new_blocks[p + 1]), 0)),
           SetEntry(blk2, a0, new_blocks[p + 1]), a0, b0, a1, b1, new_blocks,
           p + 1)
  ELSE fill_indirect2_in(GetBlockCache(m, Entry(blk2, 0)), blk2, a0, b0, a1, b1,
                         new_blocks, p)

\* the end of the indirect2 closure: g = [m, blk2]
increase_size_done(g, di) ==
  [m |-> Release(Store(g.m, di.indirecr2, g.blk2), di.indirecr2), di |-> di]

\* layout.rs 152-172 with the indirect2 block locked
increase_size_indirect2_in(m1, di, a0, b0, a1, b1, new_blocks, p) ==
  IF ~Ok(m1) THEN [m |-> m1, di |-> di]
  ELSE increase_size_done(
         fill_indirect2(m1, CacheOf(m1, di.indirecr2), a0, b0, a1, b1,
                        new_blocks, p), di)

\* layout.rs 152-155: a0, b0, a1, b1 from current_blocks and target_blocks.
\* A negative target stands for the u32 2^32 + target a wrapped subtraction
\* leaves: 2^32 / 128 = 2^25, and 2^32 is a multiple of 128.
increase_size_indirect2(m, di, current, target, new_blocks, p) ==
  increase_size_indirect2_in(
    GetBlockCache(m, di.indirecr2), di,
    current \div INODE_INDIRECT1_COUNT,
    current % INODE_INDIRECT2_COUNT,
    IF target < 0 THEN 33554432 + (target \div INODE_INDIRECT1_COUNT)
                  ELSE target \div INODE_INDIRECT1_COUNT,
    target % INODE_INDIRECT1_COUNT,
    new_blocks, p)

\* layout.rs 139-149, after the indirect1 closure (f is what its loop left);
\* m is the machine with the indirect1 block stored and released
increase_size_after_indirect1(m, di, f, target, new_blocks, overflow_checks) ==
  IF ~f.ok THEN [m |-> Panic(m, UnwrapNone), di |-> di]
  ELSE IF ~(target > INODE_INDIRECT1_COUNT) THEN [m |-> m, di |-> di]
  ELSE IF f.current = INODE_INDIRECT1_COUNT /\ f.p >= Len(new_blocks)
    THEN [m |-> Panic(m, UnwrapNone), di |-> di]
  ELSE IF target - INODE_INDIRECT2_COUNT < 0 /\ overflow_checks
    THEN [m |-> Panic(m, SubOverflow),
          di |-> IF f.current = INODE_INDIRECT1_COUNT
                   THEN [di EXCEPT !.indirecr2 = new_blocks[f.p + 1]] ELSE di]
  ELSE increase_size_indirect2(
         m,
         IF f.current = INODE_INDIRECT1_COUNT
           THEN [di EXCEPT !.indirecr2 = new_blocks[f.p + 1]] ELSE di,
         f.current - INODE_INDIRECT1_COUNT,
         target - INODE_INDIRECT2_COUNT,
         new_blocks,
         IF f.current = INODE_INDIRECT1_COUNT THEN f.p + 1 ELSE f.p)

\* the indirect1 closure (layout.rs 131-138) has run: store what it wrote
increase_size_indirect1_out(m1, di, f, target, new_blocks, overflow_checks) ==
  increase_size_after_indirect1(
    Release(Store(m1, di.indirect1, f.blk), di.indirect1), di, f, target,
    new_blocks, overflow_checks)

\* layout.rs 131-138 with the indirect1 block locked
increase_size_indirect1_in(m1, di, current, target, new_blocks, p, overflow_checks) ==
  IF ~Ok(m1) THEN [m |-> m1, di |-> di]
  ELSE increase_size_indirect1_out(
         m1, di,
         fill_indirect1(CacheOf(m1, di.indirect1), current,
                        Min(target, INODE_INDIRECT1_COUNT), new_blocks, p),
         target, new_blocks, overflow_checks)

\* layout.rs 120-130, after the direct loop (d is what it left)
increase_size_after_direct(m, di, d, target, new_blocks, overflow_checks) ==
  IF ~d.ok THEN [m |-> Panic(m, UnwrapNone), di |-> di]
  ELSE IF ~(target > INODE_DIRECT_COUNT) THEN [m |-> m, di |-> di]
  ELSE IF d.current = INODE_DIRECT_COUNT /\ d.p >= Len(new_blocks)
    THEN [m |-> Panic(m, UnwrapNone), di |-> di]
  ELSE increase_size_indirect1_in(
         GetBlockCache(m, IF d.current = INODE_DIRECT_COUNT
                            THEN new_blocks[d.p + 1] ELSE di.indirect1),
         IF d.current = INODE_DIRECT_COUNT
           THEN [di EXCEPT !.indirect1 = new_blocks[d.p + 1]] ELSE di,
         d.current - INODE_DIRECT_COUNT,
         target - INODE_DIRECT_COUNT,
         new_blocks,
         IF d.current = INODE_DIRECT_COUNT THEN d.p + 1 ELSE d.p,
         overflow_checks)

\* self.size = new_size and the direct loop (layout.rs 111-119)
increase_size_direct(m, di, d, new_size, new_blocks, overflow_checks) ==
  increase_size_after_direct(
    m, [di EXCEPT !.size = new_size, !.direct = d.direct], d,
    _data_blocks(new_size), new_blocks, overflow_checks)

\* DiskInode::increase_size: [m, di].  overflow_checks is the build's
\* setting: on, a u32 subtraction below zero panics; off, it wraps.
DiskInode_increase_size(m, di, new_size, new_blocks, overflow_checks) ==
  IF ~Ok(m) THEN [m |-> m, di |-> di]
  ELSE increase_size_direct(
         m, di,
         fill_direct(di.direct, data_blocks(di),
                     Min(_data_blocks(new_size), INODE_DIRECT_COUNT),
                     new_blocks, 0),
         new_size, new_blocks, overflow_checks)

\* DiskInode::blocks_num_needed (the caller has checked new_size >= size)
blocks_num_needed(di, new_size) ==
  DiskInode_total_blocks(new_size) - DiskInode_total_blocks(di.size)

(* ------------------------ DiskInode::clear_size ------------------------ *)
\* v.push(block[i]) for i in from .. to-1
EntriesOf(blk, from, to) == [i \in 1..(to - from) |-> Entry(blk, from + i - 1)]

RECURSIVE clear_indirect2(_, _, _, _, _)
RECURSIVE clear_indirect2_in(_, _, _, _, _, _)

\* the inner closure on the locked block `id`: push its 128 entries
clear_indirect2_in(m1, id, blk2, i, a0, v) ==
  IF ~Ok(m1) THEN [m |-> m1, v |-> Append(v, id)]
  ELSE clear_indirect2(Release(Modify(m1, id, CacheOf(m1, id)), id), blk2,
                       i + 1, a0,
                       Append(v, id) \o
                         EntriesOf(CacheOf(m1, id), 0, INODE_INDIRECT1_COUNT))

\* for indirect1 in indirect2_block.iter_mut().take(a0): push the entry and
\* the 128 entries of the block it names: [m, v]
clear_indirect2(m, blk2, i, a0, v) ==
  IF ~Ok(m) \/ i >= Min(a0, INODE_INDIRECT1_COUNT) THEN [m |-> m, v |-> v]
  ELSE clear_indirect2_in(GetBlockCache(m, Entry(blk2, i)), Entry(blk2, i),
                          blk2, i, a0, v)

\* if b0 > 0 { .. }: the closure on the locked block indirect2_block[a0]
clear_size_tail_in(m1, id, blk2, di, di1, v, b0) ==
  IF ~Ok(m1) THEN [m |-> m1, di |-> di1, v |-> Append(v, id)]
  ELSE [m |-> Release(Modify(Release(Modify(m1, id, CacheOf(m1, id)), id),
                             di.indirecr2, blk2), di.indirecr2),
        di |-> [di1 EXCEPT !.indirecr2 = 0],
        v |-> Append(v, id) \o EntriesOf(CacheOf(m1, id), 0, b0)]

\* layout.rs 233-243, after the take(a0) loop (c = [m, v])
clear_size_tail(c, blk2, di, di1, current) ==
  IF ~Ok(c.m) THEN [m |-> c.m, di |-> di1, v |-> c.v]
  ELSE IF ~(current % INODE_INDIRECT1_COUNT > 0)
    THEN [m |-> Release(Modify(c.m, di.indirecr2, blk2), di.indirecr2),
          di |-> [di1 EXCEPT !.indirecr2 = 0], v |-> c.v]
  ELSE IF current \div INODE_INDIRECT1_COUNT >= INODE_INDIRECT1_COUNT
    THEN [m |-> Panic(c.m, IndexOOB), di |-> di1, v |-> c.v]
  ELSE clear_size_tail_in(
         GetBlockCache(c.m, Entry(blk2, current \div INODE_INDIRECT1_COUNT)),
         Entry(blk2, current \div INODE_INDIRECT1_COUNT), blk2, di, di1, c.v,
         current % INODE_INDIRECT1_COUNT)

\* layout.rs 218-232 with the indirect2 block locked
clear_size_indirect2_in(m1, di, di1, v, current) ==
  IF ~Ok(m1) THEN [m |-> m1, di |-> di1, v |-> v]
  ELSE clear_size_tail(
         clear_indirect2(m1, CacheOf(m1, di.indirecr2), 0,
                         current \div INODE_INDIRECT1_COUNT, v),
         CacheOf(m1, di.indirecr2), di, di1, current)

\* layout.rs 206-217, after the indirect1 closure
clear_size_after_indirect1(m, di, di1, v, current) ==
  IF ~(current > INODE_INDIRECT1_COUNT) THEN [m |-> m, di |-> di1, v |-> v]
  ELSE IF ~(current - INODE_INDIRECT1_COUNT <= INODE_INDIRECT2_COUNT)
    THEN [m |-> Panic(m, "assertion failed: current_blocks <= INODE_INDIRECT2_COUNT"),
          di |-> di1, v |-> Append(v, di.indirecr2)]
  ELSE clear_size_indirect2_in(GetBlockCache(m, di.indirecr2), di, di1,
                               Append(v, di.indirecr2),
                               current - INODE_INDIRECT1_COUNT)

\* layout.rs 198-206 with the indirect1 block locked
clear_size_indirect1_in(m1, di, di0, v, current) ==
  IF ~Ok(m1) THEN [m |-> m1, di |-> di0, v |-> v]
  ELSE clear_size_after_indirect1(
         Release(Modify(m1, di.indirect1, CacheOf(m1, di.indirect1)),
                 di.indirect1),
         di, [di0 EXCEPT !.indirect1 = 0],
         v \o EntriesOf(CacheOf(m1, di.indirect1), 0,
                        Min(current, INODE_INDIRECT1_COUNT)),
         current)

\* the direct ids that clear_size pushes
ClearedDirect(di) ==
  [i \in 1..Min(data_blocks(di), INODE_DIRECT_COUNT) |-> di.direct[i]]

\* ClearDirect without `self.size = 0`
ClearDirect_size_kept(di) ==
  [di EXCEPT !.direct = [i \in 1..INODE_DIRECT_COUNT |->
                           IF i <= Min(data_blocks(di), INODE_DIRECT_COUNT)
                             THEN 0 ELSE di.direct[i]]]

\* the DiskInode after size = 0 and the direct loop
ClearDirect(di) ==
  [di EXCEPT !.size = 0,
             !.direct = [i \in 1..INODE_DIRECT_COUNT |->
                           IF i <= Min(data_blocks(di), INODE_DIRECT_COUNT)
                             THEN 0 ELSE di.direct[i]]]

\* DiskInode::clear_size: [m, di, v]
DiskInode_clear_size(m, di) ==
  IF ~Ok(m) THEN [m |-> m, di |-> di, v |-> <<>>]
  ELSE IF ~(data_blocks(di) > INODE_DIRECT_COUNT)
    THEN [m |-> m, di |-> ClearDirect(di), v |-> ClearedDirect(di)]
  ELSE clear_size_indirect1_in(GetBlockCache(m, di.indirect1), di,
                               ClearDirect(di),
                               Append(ClearedDirect(di), di.indirect1),
                               data_blocks(di) - INODE_DIRECT_COUNT)

(* --------------------------- TinyFileSystem ---------------------------- *)
\* .unwrap() as u32 on what Bitmap::alloc returned: [m, bit]
alloc_inode_ret(r) ==
  IF Ok(r.m) /\ r.pos < 0 THEN [m |-> Panic(r.m, UnwrapNone), bit |-> 0]
  ELSE [m |-> r.m, bit |-> r.pos]

\* TinyFileSystem::alloc_inode: [m, bit]
alloc_inode(m, fs) == alloc_inode_ret(Bitmap_alloc(m, fs.inode_bitmap))

\* .unwrap() as u32 + self.data_area_start_block: [m, id]
alloc_data_ret(r, fs) ==
  IF Ok(r.m) /\ r.pos < 0 THEN [m |-> Panic(r.m, UnwrapNone), id |-> 0]
  ELSE [m |-> r.m, id |-> r.pos + fs.data_area_start_block]

\* TinyFileSystem::alloc_data: [m, id]
alloc_data(m, fs) == alloc_data_ret(Bitmap_alloc(m, fs.data_bitmap), fs)

\* self.data_bitmap.dealloc(block_id - self.data_area_start_block), after the
\* block was zeroed.  With overflow checks off a negative difference wraps.
dealloc_data_bit(m, fs, block_id, overflow_checks) ==
  IF ~Ok(m) THEN m
  ELSE IF block_id - fs.data_area_start_block < 0 /\ overflow_checks
    THEN Panic(m, SubOverflow)
  ELSE Bitmap_dealloc(m, fs.data_bitmap, block_id - fs.data_area_start_block)

\* get_block_cache(block_id).lock().modify(0, |b| every byte = 0)
zero_block(m, block_id) ==
  Release(Modify(GetBlockCache(m, block_id), block_id, ZeroBlock), block_id)

\* TinyFileSystem::dealloc_data
dealloc_data(m, fs, block_id, overflow_checks) ==
  dealloc_data_bit(zero_block(m, block_id), fs, block_id, overflow_checks)

get_data_block_id(fs, data_bit) == fs.data_area_start_block + data_bit

\* TinyFileSystem::get_disk_inode_pos
get_disk_inode_pos(fs, inode_bit) ==
  LET inodes_per_block == BLOCK_SZ \div DISK_INODE_SZ
  IN [block_id |-> fs.inode_area_start_block + inode_bit \div inodes_per_block,
      offset |-> (inode_bit % inodes_per_block) * DISK_INODE_SZ]

\* the SuperBlock view of block 0
SuperBlockAt(blk) ==
  [magic |-> GetU32(blk, 0),
   total_blocks |-> GetU32(blk, 4),
   inode_bitmap_blocks |-> GetU32(blk, 8),
   inode_area_blocks |-> GetU32(blk, 12),
   data_bitmap_blocks |-> GetU32(blk, 16),
   data_area_blocks |-> GetU32(blk, 20)]

\* SuperBlock::initialize
SuperBlock_initialize(blk, total_blocks, inode_bitmap_blocks, inode_area_blocks, data_bitmap_blocks, data_area_blocks) ==
  Patch(blk, 0, U32Bytes(TFS_MAGIC) \o U32Bytes(total_blocks)
                  \o U32Bytes(inode_bitmap_blocks) \o U32Bytes(inode_area_blocks)
                  \o U32Bytes(data_bitmap_blocks) \o U32Bytes(data_area_blocks))

SuperBlock_is_valid(sb) == sb.magic = TFS_MAGIC

\* for i in lo..hi { get_block_cache(i).lock().modify(0, zero the block) }
\* (the range is split in halves only to keep the evaluation shallow)
RECURSIVE clear_all_blocks(_, _, _)
clear_all_blocks(m, lo, hi) ==
  IF ~Ok(m) \/ lo >= hi THEN m
  ELSE IF hi = lo + 1 THEN zero_block(m, lo)
  ELSE clear_all_blocks(clear_all_blocks(m, lo, (lo + hi) \div 2),
                        (lo + hi) \div 2, hi)

\* the layout TinyFileSystem::create computes (tfs.rs 39-60)
create_layout(total_blocks, inode_bitmap_blocks) ==
  LET inode_bitmap == Bitmap_new(1, inode_bitmap_blocks)
      inode_num == Bitmap_maxium(inode_bitmap)
      inode_area_blocks == (inode_num * DISK_INODE_SZ + BLOCK_SZ - 1) \div BLOCK_SZ
      inode_total_blocks == inode_bitmap_blocks + inode_area_blocks
      data_total_blocks == total_blocks - 1 - inode_area_blocks
      data_bitmap_blocks == (data_total_blocks + 4096) \div 4097
      data_area_blocks == data_total_blocks - data_bitmap_blocks
  IN [inode_area_blocks |-> inode_area_blocks,
      data_total_blocks |-> data_total_blocks,
      data_bitmap_blocks |-> data_bitmap_blocks,
      data_area_blocks |-> data_area_blocks,
      fs |-> [inode_bitmap |-> inode_bitmap,
              data_bitmap |-> Bitmap_new(1 + inode_bitmap_blocks + inode_area_blocks,
                                         data_bitmap_blocks),
              inode_area_start_block |-> 1 + inode_bitmap_blocks,
              data_area_start_block |-> 1 + inode_total_blocks + data_bitmap_blocks]]

\* the closure on the locked block 0: super_block.initialize(..)
create_super_block(m1, total_blocks, inode_bitmap_blocks, l) ==
  IF ~Ok(m1) THEN m1
  ELSE Release(Modify(m1, 0,
                 SuperBlock_initialize(CacheOf(m1, 0), total_blocks,
                   inode_bitmap_blocks, l.inode_area_blocks,
                   l.data_bitmap_blocks, l.data_area_blocks)), 0)

\* the closure on the locked inode block: disk_inode.initialize(type_)
initialize_inode(m1, pos, type_) ==
  IF ~Ok(m1) THEN m1
  ELSE Release(Modify(m1, pos.block_id,
                 StoreDiskInode(CacheOf(m1, pos.block_id), pos.offset,
                   DiskInode_initialize(
                     DiskInodeAt(CacheOf(m1, pos.block_id), pos.offset),
                     type_))), pos.block_id)

\* assert_eq!(tfs.alloc_inode(), 0), the root DiskInode, block_cache_sync_all
create_root(a, fs) ==
  IF Ok(a.m) /\ a.bit # 0
    THEN [m |-> Panic(a.m, AssertEq), fs |-> fs]
    ELSE [m |-> block_cache_sync_all(
                  initialize_inode(
                    GetBlockCache(a.m, get_disk_inode_pos(fs, 0).block_id),
                    get_disk_inode_pos(fs, 0), TYPE_DIRECTORY)),
          fs |-> fs]

\* TinyFileSystem::create: [m, fs]
TinyFileSystem_create(m, total_blocks, inode_bitmap_blocks) ==
  IF create_layout(total_blocks, inode_bitmap_blocks).data_total_blocks < 0
     \/ create_layout(total_blocks, inode_bitmap_blocks).data_area_blocks < 0
    THEN [m |-> Panic(m, SubOverflow),
          fs |-> create_layout(total_blocks, inode_bitmap_blocks).fs]
    ELSE create_root(
           alloc_inode(
             create_super_block(
               GetBlockCache(clear_all_blocks(m, 0, total_blocks), 0),
               total_blocks, inode_bitmap_blocks,
               create_layout(total_blocks, inode_bitmap_blocks)),
             create_layout(total_blocks, inode_bitmap_blocks).fs),
           create_layout(total_blocks, inode_bitmap_blocks).fs)

\* the TinyFileSystem that open builds from a SuperBlock
open_layout(super_block) ==
  [inode_bitmap |-> Bitmap_new(1, super_block.inode_area_blocks),
   data_bitmap |->
     Bitmap_new(1 + super_block.inode_area_blocks + super_block.inode_bitmap_blocks,
                super_block.data_bitmap_blocks),
   inode_area_start_block |-> 1 + super_block.inode_bitmap_blocks,
   data_area_start_block |->
     1 + super_block.inode_area_blocks + super_block.inode_bitmap_blocks
       + super_block.data_bitmap_blocks]

\* the closure of open on the locked block 0
open_in(m1) ==
  IF ~Ok(m1) THEN [m |-> m1, fs |-> open_layout(SuperBlockAt(ZeroBlock))]
  ELSE IF ~SuperBlock_is_valid(SuperBlockAt(CacheOf(m1, 0)))
    THEN [m |-> Panic(m1, "Error loading TFS!"),
          fs |-> open_layout(SuperBlockAt(CacheOf(m1, 0)))]
  ELSE [m |-> Release(m1, 0), fs |-> open_layout(SuperBlockAt(CacheOf(m1, 0)))]

\* TinyFileSystem::open: [m, fs]
TinyFileSystem_open(m) == open_in(GetBlockCache(m, 0))

\* TinyFileSystem::root_inode: the Inode (block_id, offset) of inode 0
root_inode(fs) == get_disk_inode_pos(fs, 0)

(* ------------------------------ DirEntry ------------------------------- *)
\* DirEntry::new(name, inode_number).as_bytes(); the caller has checked that
\* name_bytes[..name.len()] is in range
DirEntry_new(name, inode_number) ==
  [i \in 1..(NAME_LENGTH_LIMIT + 1) |-> IF i <= Len(name) THEN name[i] ELSE 0]
    \o U32Bytes(inode_number)

\* (0usize..).find(|i| self.name[*i] == 0) stays inside the 28-byte array
DirEntry_name_ends(bytes) == \E i \in 1..(NAME_LENGTH_LIMIT + 1) : bytes[i] = 0

\* the len that DirEntry::name finds
DirEntry_name_len(bytes) ==
  CHOOSE i \in 0..NAME_LENGTH_LIMIT :
    /\ bytes[i + 1] = 0
    /\ \A j \in 0..(i - 1) : bytes[j + 1] # 0

\* s[i] is a UTF-8 continuation byte in lo..hi
Cont(s, i, lo, hi) == i <= Len(s) /\ s[i] >= lo /\ s[i] <= hi

\* core::str::from_utf8(s).is_ok(), from byte i on
RECURSIVE Utf8From(_, _)
Utf8From(s, i) ==
  IF i > Len(s) THEN TRUE
  ELSE IF s[i] < 128 THEN Utf8From(s, i + 1)
  ELSE IF s[i] >= 194 /\ s[i] <= 223
    THEN Cont(s, i + 1, 128, 191) /\ Utf8From(s, i + 2)
  ELSE IF s[i] >= 224 /\ s[i] <= 239
    THEN /\ Cont(s, i + 1, IF s[i] = 224 THEN 160 ELSE 128,
                            IF s[i] = 237 THEN 159 ELSE 191)
         /\ Cont(s, i + 2, 128, 191)
         /\ Utf8From(s, i + 3)
  ELSE IF s[i] >= 240 /\ s[i] <= 244
    THEN /\ Cont(s, i + 1, IF s[i] = 240 THEN 144 ELSE 128,
                            IF s[i] = 244 THEN 143 ELSE 191)
         /\ Cont(s, i + 2, 128, 191)
         /\ Cont(s, i + 3, 128, 191)
         /\ Utf8From(s, i + 4)
  ELSE FALSE

\* DirEntry::name returns (neither the search nor from_utf8(..).unwrap()
\* panics)
DirEntry_name_ok(bytes) ==
  /\ DirEntry_name_ends(bytes)
  /\ Utf8From(SubSeq(bytes, 1, DirEntry_name_len(bytes)), 1)

DirEntry_name(bytes) == SubSeq(bytes, 1, DirEntry_name_len(bytes))

DirEntry_inode_number(bytes) == GetU32(bytes, NAME_LENGTH_LIMIT + 1)

(* ------------------------------ Inode (vfs) ---------------------------- *)
NoInode == [block_id |-> -1, offset |-> -1]

\* the DiskInode that read_disk_inode / modify_disk_inode hand to the
\* closure: the view at h.offset of the locked block h.block_id
DiskInodeOf(m1, h) == DiskInodeAt(CacheOf(m1, h.block_id), h.offset)

\* the end of modify_disk_inode: the closure's DiskInode is in the buffer
EndModify(m, h, di) ==
  Release(Store(m, h.block_id,
            StoreDiskInode(CacheOf(m, h.block_id), h.offset, di)), h.block_id)

\* the end of read_disk_inode: r is what the closure returned, with the machine
EndRead(r, h) == [r EXCEPT !.m = Release(r.m, h.block_id)]

\* DirEntry::name panics
NamePanic(bytes) ==
  IF DirEntry_name_ends(bytes)
    THEN "called Result::unwrap() on an Err value: Utf8Error"
    ELSE IndexOOB

RECURSIVE find_from(_, _, _, _)
RECURSIVE find_entry(_, _, _, _)

\* the body of find_inode_id's loop, with entry i read (r = [m, n, data])
find_entry(r, di, name, i) ==
  IF ~Ok(r.m) THEN [m |-> r.m, id |-> -1]
  ELSE IF r.n # DIR_ENTRY_SZ THEN [m |-> Panic(r.m, AssertEq), id |-> -1]
  ELSE IF ~DirEntry_name_ok(r.data)
    THEN [m |-> Panic(r.m, NamePanic(r.data)), id |-> -1]
  ELSE IF DirEntry_name(r.data) = name
    THEN [m |-> r.m, id |-> DirEntry_inode_number(r.data)]
  ELSE find_from(r.m, di, name, i + 1)

\* Inode::find_inode_id, from entry i on: [m, id], id = -1 for None
find_from(m, di, name, i) ==
  IF ~Ok(m) \/ i >= di.size \div DIR_ENTRY_SZ THEN [m |-> m, id |-> -1]
  ELSE find_entry(DiskInode_read_at(m, di, DIR_ENTRY_SZ * i, DIR_ENTRY_SZ), di,
                  name, i)

find_inode_id(m, di, name) ==
  IF ~Ok(m) THEN [m |-> m, id |-> -1]
  ELSE IF ~is_dir(di)
    THEN [m |-> Panic(m, "assertion failed: disk_inode.is_dir()"), id |-> -1]
  ELSE find_from(m, di, name, 0)

\* .map(|inode_bit| Inode::new(get_disk_inode_pos(inode_bit))): [m, ret]
find_ret(r, fs) ==
  [m |-> r.m,
   ret |-> IF ~Ok(r.m) \/ r.id < 0 THEN NoInode ELSE get_disk_inode_pos(fs, r.id)]

\* the closure of Inode::find on the locked inode block
Inode_find_in(m1, fs, h, name) ==
  IF ~Ok(m1) THEN [m |-> m1, ret |-> NoInode]
  ELSE EndRead(find_ret(find_inode_id(m1, DiskInodeOf(m1, h), name), fs), h)

\* Inode::find: [m, ret]
Inode_find(m, fs, h, name) ==
  Inode_find_in(GetBlockCache(m, h.block_id), fs, h, name)

RECURSIVE ls_from(_, _, _, _)
RECURSIVE ls_entry(_, _, _, _)

\* the body of ls's loop, with entry i read (r = [m, n, data])
ls_entry(r, di, i, v) ==
  IF ~Ok(r.m) THEN [m |-> r.m, v |-> v]
  ELSE IF r.n # DIR_ENTRY_SZ THEN [m |-> Panic(r.m, AssertEq), v |-> v]
  ELSE IF ~DirEntry_name_ok(r.data)
    THEN [m |-> Panic(r.m, NamePanic(r.data)), v |-> v]
  ELSE ls_from(r.m, di, i + 1, Append(v, DirEntry_name(r.data)))

\* the loop of Inode::ls, from entry i on: [m, v]
ls_from(m, di, i, v) ==
  IF ~Ok(m) \/ i >= di.size \div DIR_ENTRY_SZ THEN [m |-> m, v |-> v]
  ELSE ls_entry(DiskInode_read_at(m, di, DIR_ENTRY_SZ * i, DIR_ENTRY_SZ), di,
                i, v)

\* the closure of Inode::ls on the locked inode block
Inode_ls_in(m1, h) ==
  IF ~Ok(m1) THEN [m |-> m1, v |-> <<>>]
  ELSE EndRead(ls_from(m1, DiskInodeOf(m1, h), 0, <<>>), h)

\* Inode::ls: [m, v]
Inode_ls(m, h) == Inode_ls_in(GetBlockCache(m, h.block_id), h)

\* the closure of Inode::read_at on the locked inode block
Inode_read_at_in(m1, h, offset, buflen) ==
  IF ~Ok(m1) THEN [m |-> m1, n |-> 0, data |-> <<>>]
  ELSE EndRead(DiskInode_read_at(m1, DiskInodeOf(m1, h), offset, buflen), h)

\* Inode::read_at: [m, n, data]
Inode_read_at(m, h, offset, buflen) ==
  Inode_read_at_in(GetBlockCache(m, h.block_id), h, offset, buflen)

RECURSIVE alloc_blocks(_, _, _, _)
RECURSIVE alloc_blocks_rest(_, _, _)

\* v.push(fs.alloc_data()), a = [m, id]
alloc_blocks_push(a, v) ==
  IF ~Ok(a.m) THEN [m |-> a.m, v |-> v] ELSE [m |-> a.m, v |-> Append(v, a.id)]

\* for _ in 0..blocks_needed { v.push(fs.alloc_data()) }: [m, v]; the n
\* rounds of the loop are run as the first n \div 2 and then the others
alloc_blocks(m, fs, n, v) ==
  IF ~Ok(m) \/ n <= 0 THEN [m |-> m, v |-> v]
  ELSE IF n = 1 THEN alloc_blocks_push(alloc_data(m, fs), v)
  ELSE alloc_blocks_rest(alloc_blocks(m, fs, n \div 2, v), fs, n - (n \div 2))

alloc_blocks_rest(a, fs, n) == alloc_blocks(a.m, fs, n, a.v)

\* disk_inode.increase_size(new_size, v, ..), a = [m, v]
Inode_increase_size_fill(a, di, new_size, overflow_checks) ==
  DiskInode_increase_size(a.m, di, new_size, a.v, overflow_checks)

\* Inode::increase_size: [m, di]
Inode_increase_size(m, fs, di, new_size, overflow_checks) ==
  IF ~Ok(m) \/ new_size < di.size THEN [m |-> m, di |-> di]
  ELSE Inode_increase_size_fill(
         alloc_blocks(m, fs, blocks_num_needed(di, new_size), <<>>), di,
         new_size, overflow_checks)

\* the end of Inode::write_at: w = [m, n] is what DiskInode::write_at left
Inode_write_at_end(w, h, di) ==
  [m |-> block_cache_sync_all(EndModify(w.m, h, di)), n |-> w.n]

\* disk_inode.write_at(offset, buf), g = [m, di] after increase_size
Inode_write_at_write(g, h, offset, buf) ==
  Inode_write_at_end(DiskInode_write_at(g.m, g.di, offset, buf), h, g.di)

\* the closure of Inode::write_at on the locked inode block
Inode_write_at_in(m1, fs, h, offset, buf, overflow_checks) ==
  IF ~Ok(m1) THEN [m |-> m1, n |-> 0]
  ELSE Inode_write_at_write(
         Inode_increase_size(m1, fs, DiskInodeOf(m1, h), offset + Len(buf),
                             overflow_checks),
         h, offset, buf)

\* Inode::write_at: [m, n]
Inode_write_at(m, fs, h, offset, buf, overflow_checks) ==
  Inode_write_at_in(GetBlockCache(m, h.block_id), fs, h, offset, buf,
                    overflow_checks)

\* for block_id in data_blocks_dealloc { fs.dealloc_data(block_id) }
RECURSIVE dealloc_blocks(_, _, _, _, _)
dealloc_blocks(m, fs, v, i, overflow_checks) ==
  IF ~Ok(m) \/ i > Len(v) THEN m
  ELSE dealloc_blocks(dealloc_data(m, fs, v[i], overflow_checks), fs, v, i + 1,
                      overflow_checks)

\* assert!(data_blocks_dealloc.len() == DiskInode::total_blocks(size))
clear_assert(c, size) ==
  IF Ok(c.m) /\ Len(c.v) # DiskInode_total_blocks(size)
    THEN Panic(c.m, "assertion failed: data_blocks_dealloc.len() == total_blocks(size)")
    ELSE c.m

\* the rest of Inode::clear: c = [m, di, v] is what clear_size left
Inode_clear_dealloc(c, size, fs, h, overflow_checks) ==
  block_cache_sync_all(
    EndModify(dealloc_blocks(clear_assert(c, size), fs, c.v, 1, overflow_checks),
              h, c.di))

\* the closure of Inode::clear on the locked inode block
Inode_clear_in(m1, fs, h, overflow_checks) ==
  IF ~Ok(m1) THEN m1
  ELSE Inode_clear_dealloc(DiskInode_clear_size(m1, DiskInodeOf(m1, h)),
                           DiskInodeOf(m1, h).size, fs, h, overflow_checks)

\* Inode::clear: the machine after the call
Inode_clear(m, fs, h, overflow_checks) ==
  Inode_clear_in(GetBlockCache(m, h.block_id), fs, h, overflow_checks)

\* the end of Inode::create: w = [m, n] is what write_at(dirent) left
create_ret(w, di, bit, fs, h) ==
  [m |-> EndModify(w.m, h, di),
   ret |-> IF Ok(w.m) THEN get_disk_inode_pos(fs, bit) ELSE NoInode]

\* DirEntry::new(name, new_inode_bit) and root_inode.write_at(..);
\* g = [m, di] after increase_size
create_dirent(g, file_count, bit, fs, h, name) ==
  IF Ok(g.m) /\ Len(name) > NAME_LENGTH_LIMIT + 1
    THEN create_ret([m |-> Panic(g.m, "range end index out of range for slice"),
                     n |-> 0], g.di, bit, fs, h)
    ELSE create_ret(DiskInode_write_at(g.m, g.di, file_count * DIR_ENTRY_SZ,
                                       DirEntry_new(name, bit)),
                    g.di, bit, fs, h)

\* the closure create passes to modify_disk_inode, on the locked root block
create_append(m1, bit, fs, h, name, overflow_checks) ==
  IF ~Ok(m1) THEN [m |-> m1, ret |-> NoInode]
  ELSE create_dirent(
         Inode_increase_size(m1, fs, DiskInodeOf(m1, h),
                             (DiskInodeOf(m1, h).size \div DIR_ENTRY_SZ + 1)
                               * DIR_ENTRY_SZ,
                             overflow_checks),
         DiskInodeOf(m1, h).size \div DIR_ENTRY_SZ, bit, fs, h, name)

\* initialize the new DiskInode, then update the root (a = [m, bit])
create_new_inode(a, fs, h, name, overflow_checks) ==
  IF ~Ok(a.m) THEN [m |-> a.m, ret |-> NoInode]
  ELSE create_append(
         GetBlockCache(
           initialize_inode(
             GetBlockCache(a.m, get_disk_inode_pos(fs, a.bit).block_id),
             get_disk_inode_pos(fs, a.bit), TYPE_FILE),
           h.block_id),
         a.bit, fs, h, name, overflow_checks)

\* .is_some() => return None; else alloc_inode (f = [m, id] from the lookup,
\* the root block still locked)
create_lookup_ret(f, fs, h, name, overflow_checks) ==
  IF ~Ok(f.m) THEN [m |-> f.m, ret |-> NoInode]
  ELSE IF f.id >= 0 THEN [m |-> Release(f.m, h.block_id), ret |-> NoInode]
  ELSE create_new_inode(alloc_inode(Release(f.m, h.block_id), fs), fs, h, name,
                        overflow_checks)

\* the closure create passes to read_disk_inode, on the locked root block
create_lookup(m1, fs, h, name, overflow_checks) ==
  IF ~Ok(m1) THEN [m |-> m1, ret |-> NoInode]
  ELSE IF ~is_dir(DiskInodeOf(m1, h))
    THEN [m |-> Panic(m1, "assertion failed: root_inode.is_dir()"),
          ret |-> NoInode]
  ELSE create_lookup_ret(find_inode_id(m1, DiskInodeOf(m1, h), name), fs, h,
                         name, overflow_checks)

\* Inode::create: [m, ret], ret = NoInode for None
Inode_create(m, fs, h, name, overflow_checks) ==
  create_lookup(GetBlockCache(m, h.block_id), fs, h, name, overflow_checks)

(* ----------------------------- the client ------------------------------ *)
\* let mut read_buf = [0u8; 10] in the test's read loop
CHUNK == 10

\* if len == 0 { break; } offset += len; read_str.push(..read_buf[..len]),
\* r = [m, n, data] from read_at
read_chunk_ret(st, r) ==
  IF ~Ok(r.m) \/ r.n = 0
    THEN [st EXCEPT !.m = r.m, !.done = TRUE]
    ELSE [m |-> r.m, offset |-> st.offset + r.n, data |-> st.data \o r.data,
          reads |-> st.reads + 1, done |-> FALSE]

\* one turn of the test's loop
\*   loop { let len = file.read_at(offset, &mut read_buf); .. }
\* on st = [m, offset, data, reads, done]
read_chunk(st, h) == read_chunk_ret(st, Inode_read_at(st.m, h, st.offset, CHUNK))

\* up to 2^k turns of the loop (halved only to keep the evaluation shallow)
RECURSIVE read_chunks_upto(_, _, _)
read_chunks_upto(st, h, k) ==
  IF st.done THEN st
  ELSE IF k = 0 THEN read_chunk(st, h)
  ELSE read_chunks_upto(read_chunks_upto(st, h, k - 1), h, k - 1)

RECURSIVE read_chunks_from(_, _, _)
read_chunks_from(st, h, k) ==
  IF st.done THEN st ELSE read_chunks_from(read_chunks_upto(st, h, k), h, k + 1)

\* the whole loop: [m, offset, data, reads, done]; reads counts the reads
\* that returned bytes
read_chunks(m, h) ==
  read_chunks_from([m |-> m, offset |-> 0, data |-> <<>>, reads |-> 0,
                    done |-> FALSE], h, 0)

(* ------------------------------- state --------------------------------- *)
VARIABLES
  queue,     \* BLOCK_CACHE_MANAGER.queue: <<[block_id, cache, modified]>>
  dev,       \* the block device: block id -> 512 bytes (absent = all zero)
  dropped,   \* ids of entries evicted with bytes the device does not hold
  mounted,   \* TinyFileSystem::create / open has returned
  fs,        \* the TinyFileSystem it returned
  files,     \* the Inodes handed out by create and find
  panic,     \* "" or the message of the panic that stopped the program
  last,      \* the last call, its arguments and what it returned
  prev,      \* the call before it
  created,   \* names for which create returned Some, in call order
  calls,     \* number of calls made, by kind
  fs_lock,   \* the thread that holds the Mutex<TinyFileSystem>, or 0
  threads,   \* each thread's call and how far it has got
  handles,   \* block ids of the Arc<Mutex<BlockCache>> a client of the cache keeps
  dev_b      \* the blocks of a second BlockFile the process has open

vars == <<queue, dev, dropped, mounted, fs, files, panic, last, prev, created, calls, fs_lock, threads, handles, dev_b>>

NoFs == [inode_bitmap |-> Bitmap_new(0, 0), data_bitmap |-> Bitmap_new(0, 0),
         inode_area_start_block |-> 0, data_area_start_block |-> 0]

\* the machine an operation starts from: nothing held
MachOf(q, d, lost) ==
  [queue |-> q, dev |-> d, held |-> <<>>, panic |-> NoPanic, maxheld |-> 0,
   inverted |-> FALSE,
   dropped |-> lost]

Mach == MachOf(queue, dev, dropped)

\* what a block holds for the file system: the cached buffer when the block
\* is in the pool, the device's bytes otherwise
ViewOf(q, d, block_id) ==
  IF IndexOf(q, block_id) # 0 THEN q[IndexOf(q, block_id)].cache
  ELSE read_block(d, block_id)

RECURSIVE ViewDevFrom(_, _, _)
ViewDevFrom(q, d, i) ==
  IF i > Len(q) THEN d
  ELSE ViewDevFrom(q, write_block(d, q[i].block_id, q[i].cache), i + 1)

\* the file system's contents: the device with every cached buffer written
\* back, under an empty pool (reads of it evict nothing that was modified)
Contents(q, d) == MachOf(<<>>, ViewDevFrom(q, d, 1), {})

SizeOf(q, d, h) == DiskInodeAt(ViewOf(q, d, h.block_id), h.offset).size

TypeOf(q, d, h) == DiskInodeAt(ViewOf(q, d, h.block_id), h.offset).type_

\* what a read_at returned, without the machine
ReadOutcome(r) == [panic |-> r.m.panic, n |-> r.n, data |-> r.data]

\* the bytes of file h
FileBytes(q, d, h) ==
  ReadOutcome(Inode_read_at(Contents(q, d), h, 0, SizeOf(q, d, h)))

\* what an ls returned, without the machine
LsOutcome(r) == [panic |-> r.m.panic, v |-> r.v]

\* the names in the directory
DirList(q, d, f) == LsOutcome(Inode_ls(Contents(q, d), root_inode(f)))

\* what a find returned, without the machine
FindOutcome(r) == [panic |-> r.m.panic, ret |-> r.ret]

\* what the directory maps name to
Lookup(q, d, f, name) ==
  FindOutcome(Inode_find(Contents(q, d), f, root_inode(f), name))

BitmapBlocks(q, d, bm) ==
  [i \in 0..(bm.blocks - 1) |-> ViewOf(q, d, bm.start_block_id + i)]

PopCountBlock(blk) ==
  IF blk = ZeroBlock THEN 0
  ELSE Cardinality({x \in (1..BLOCK_SZ) \X (0..7) : BitOf(blk[x[1]], x[2]) = 1})

RECURSIVE PopCountFrom(_, _, _, _)
PopCountFrom(q, d, bm, i) ==
  IF i >= bm.blocks THEN 0
  ELSE PopCountBlock(ViewOf(q, d, bm.start_block_id + i))
         + PopCountFrom(q, d, bm, i + 1)

\* number of set bits of a bitmap
PopCount(q, d, bm) == PopCountFrom(q, d, bm, 0)

\* the bytes a client passes to write_at: len bytes, none of them 0, that
\* differ from block to block and from pattern to pattern
PatByte(pat, i) == 1 + ((pat * 131 + i * 7 + (i \div BLOCK_SZ) * 13) % 251)
PatBuf(len, pat) == [i \in 1..len |-> PatByte(pat, i - 1)]

NoCall == [op |-> "none", h |-> NoInode, name |-> <<>>, off |-> 0, len |-> 0,
           pat |-> 0, n |-> 0, data |-> <<>>, ret |-> NoInode, v |-> <<>>,
           old_size |-> 0, reads |-> 0, maxheld |-> 0, inverted |-> FALSE]

Call(op, h) == [NoCall EXCEPT !.op = op, !.h = h]

Kinds ==
  {"mount", "create", "lookup", "read", "write", "clear", "get", "drop", "alloc", "dealloc"}

\* how many threads call Inode operations next to the main thread
MaxThreads == 2

Threads == 1..MaxThreads

\* a thread that has not called anything: `at` is where it is, `turn` the
\* position of its lock acquisition among all, `raced` whether another
\* thread was waiting for the lock when it got it, `expect` the outcomes of
\* its call run alone from the state in which it got the lock
Idle == [at |-> "idle", call |-> NoCall, turn |-> 0, raced |-> FALSE,
         expect |-> {}, result |-> [m |-> NoPanic]]

Init ==
  /\ queue = <<>>
  /\ dev = <<>>
  /\ dropped = {}
  /\ mounted = FALSE
  /\ fs = NoFs
  /\ files = {}
  /\ panic = NoPanic
  /\ last = NoCall
  /\ prev = NoCall
  /\ created = <<>>
  /\ calls = [k \in Kinds |-> 0]
  /\ fs_lock = 0
  /\ threads = [t \in Threads |-> Idle]
  /\ handles = <<>>
  /\ dev_b = <<>>

\* the cache, the device and the panic flag after a call of kind k by the
\* main thread, made while no other thread runs
Commit(m, k, call) ==
  /\ queue' = m.queue
  /\ dev' = m.dev
  /\ dropped' = m.dropped
  /\ panic' = m.panic
  /\ last' = [call EXCEPT !.maxheld = m.maxheld, !.inverted = m.inverted]
  /\ prev' = last
  /\ calls' = [calls EXCEPT ![k] = @ + 1]
  /\ UNCHANGED <<fs_lock, threads, handles, dev_b>>

\* the builds an operation is run under: overflow checks on (a u32
\* subtraction that overflows panics) and off (it wraps)
Builds == BOOLEAN

(* ------------------------------ actions -------------------------------- *)
\* create / open returned r = [m, fs]
Mounted(r, op) ==
  /\ Commit(r.m, "mount", Call(op, NoInode))
  /\ mounted' = Ok(r.m)
  /\ fs' = IF Ok(r.m) THEN r.fs ELSE fs
  /\ UNCHANGED <<files, created>>

\* TinyFileSystem::create(block_file, 16 * 2048, 1)  (the packer)
TfsCreate ==
  /\ panic = NoPanic /\ ~mounted
  /\ Mounted(TinyFileSystem_create(Mach, DEVICE_BLOCKS, 1), "tfs_create")

\* TinyFileSystem::open(block_file)
TfsOpen ==
  /\ panic = NoPanic /\ ~mounted
  /\ Mounted(TinyFileSystem_open(Mach), "tfs_open")

\* create returned r = [m, ret]
Created(r, name) ==
  /\ Commit(r.m, "create", [Call("create", root_inode(fs)) EXCEPT
                              !.name = name, !.ret = r.ret])
  /\ files' = IF r.ret # NoInode THEN files \cup {r.ret} ELSE files
  /\ created' = IF r.ret # NoInode THEN Append(created, name) ELSE created
  /\ UNCHANGED <<mounted, fs>>

\* root_inode.create(name)
Create(name) ==
  /\ panic = NoPanic /\ mounted
  /\ \E oc \in Builds :
       Created(Inode_create(Mach, fs, root_inode(fs), name, oc), name)

\* find returned r = [m, ret]
Found(r, name) ==
  /\ Commit(r.m, "lookup", [Call("find", root_inode(fs)) EXCEPT
                              !.name = name, !.ret = r.ret])
  /\ files' = IF r.ret # NoInode THEN files \cup {r.ret} ELSE files
  /\ UNCHANGED <<mounted, fs, created>>

\* root_inode.find(name)
Find(name) ==
  /\ panic = NoPanic /\ mounted
  /\ Found(Inode_find(Mach, fs, root_inode(fs), name), name)

\* ls returned r = [m, v]
Listed(r) ==
  /\ Commit(r.m, "lookup", [Call("ls", root_inode(fs)) EXCEPT !.v = r.v])
  /\ UNCHANGED <<mounted, fs, files, created>>

\* root_inode.ls()
Ls ==
  /\ panic = NoPanic /\ mounted
  /\ Listed(Inode_ls(Mach, root_inode(fs)))

\* read_at returned r = [m, n, data]
ReadDone(r, h, off, len) ==
  /\ Commit(r.m, "read", [Call("read_at", h) EXCEPT
                            !.off = off, !.len = len, !.n = r.n,
                            !.data = r.data,
                            !.old_size = SizeOf(queue, dev, h)])
  /\ UNCHANGED <<mounted, fs, files, created>>

\* h.read_at(off, &mut [0u8; len])
ReadAt(h, off, len) ==
  /\ panic = NoPanic /\ mounted
  /\ ReadDone(Inode_read_at(Mach, h, off, len), h, off, len)

\* the read loop ended in st = [m, offset, data, reads, done]
ChunksDone(st, h) ==
  /\ Commit(st.m, "read", [Call("read_chunks", h) EXCEPT
                             !.len = CHUNK, !.n = Len(st.data),
                             !.data = st.data, !.reads = st.reads,
                             !.old_size = SizeOf(queue, dev, h)])
  /\ UNCHANGED <<mounted, fs, files, created>>

\* the test's loop of 10-byte read_at calls over h
ReadChunks(h) ==
  /\ panic = NoPanic /\ mounted
  /\ ChunksDone(read_chunks(Mach, h), h)

\* write_at returned r = [m, n]
Written(r, h, off, len, pat) ==
  /\ Commit(r.m, "write", [Call("write_at", h) EXCEPT
                             !.off = off, !.len = len, !.pat = pat, !.n = r.n,
                             !.old_size = SizeOf(queue, dev, h)])
  /\ UNCHANGED <<mounted, fs, files, created>>

\* h.write_at(off, PatBuf(len, pat))
WriteAt(h, off, len, pat) ==
  /\ panic = NoPanic /\ mounted
  /\ \E oc \in Builds :
       Written(Inode_write_at(Mach, fs, h, off, PatBuf(len, pat), oc), h, off,
               len, pat)

\* clear left the machine m
Cleared(m, h) ==
  /\ Commit(m, "clear", [Call("clear", h) EXCEPT
                           !.old_size = SizeOf(queue, dev, h)])
  /\ UNCHANGED <<mounted, fs, files, created>>

\* h.clear()
Clear(h) ==
  /\ panic = NoPanic /\ mounted
  /\ \E oc \in Builds : Cleared(Inode_clear(Mach, fs, h, oc), h)

(* --------------------------- specifications ---------------------------- *)
\* how many calls a run makes after the mount, in all and of each kind
MaxCalls == 4
MaxCreates == 2
MaxLookups == 1
MaxReads == 1
MaxWrites == 2
MaxClears == 2

Names == {<<97>>, <<98>>}

\* (offset, length) of the write_at calls: a few bytes, and as many blocks
\* as the pool holds
WriteArgs == {<<0, 15>>, <<0, BLOCK_CACHE_SIZE * BLOCK_SZ>>}

\* (offset, length) of the read_at calls
ReadArgs == {<<0, BLOCK_CACHE_SIZE * BLOCK_SZ>>, <<20, 10>>}

Patterns == {1}

NumCalls ==
  calls["create"] + calls["lookup"] + calls["read"] + calls["write"]
    + calls["clear"]

\* a further call of kind k is within the bounds
May(k, max) == calls[k] < max /\ NumCalls < MaxCalls

Next ==
  \/ TfsCreate
  \/ TfsOpen
  \/ \E name \in Names : May("create", MaxCreates) /\ Create(name)
  \/ \E name \in Names : May("lookup", MaxLookups) /\ Find(name)
  \/ May("lookup", MaxLookups) /\ Ls
  \/ \E h \in files, a \in ReadArgs : May("read", MaxReads) /\ ReadAt(h, a[1], a[2])
  \/ \E h \in files : May("read", MaxReads) /\ ReadChunks(h)
  \/ \E h \in files, a \in WriteArgs, pat \in Patterns :
       May("write", MaxWrites) /\ WriteAt(h, a[1], a[2], pat)
  \/ \E h \in files : May("clear", MaxClears) /\ Clear(h)

Spec == Init /\ [][Next]_vars
(* ------------------------------ properties ----------------------------- *)
\* what h.read_at(off, &mut [0u8; len]) returns when it is the next call
ReadBack(h, off, len) == ReadOutcome(Inode_read_at(Mach, h, off, len))

\* the same call in the state a step leads to
ReadBackNext(h, off, len) ==
  ReadOutcome(Inode_read_at(MachOf(queue', dev', dropped'), h, off, len))

\* the same call through an empty block cache: every block comes from the
\* device
ReadBackFromDevice(h, off, len) ==
  ReadOutcome(Inode_read_at(MachOf(<<>>, dev, {}), h, off, len))

\* read_at returned n after filling its buffer with data
Returned(n, data) == [panic |-> NoPanic, n |-> n, data |-> data]

\* the step is a call of op
Calls(op, k) == last'.op = op /\ calls'[k] = calls[k] + 1

\* C1: after clear on a file, write_at(0, S) followed by a read_at of
\* Len(S) bytes from offset 0 returns exactly S.
C1_RoundTrip ==
  (last.op = "write_at" /\ last.off = 0 /\ prev.op = "clear" /\ prev.h = last.h)
    => /\ panic = NoPanic
       /\ ReadBack(last.h, 0, last.len)
            = Returned(last.len, PatBuf(last.len, last.pat))

\* C2: a write_at(off, buf) that extends the file returns Len(buf), sets the
\* size to off + Len(buf), and a following read_at(off, _) of Len(buf) bytes
\* returns buf.
C2_WriteExtends ==
  (last.op = "write_at" /\ last.off + last.len > last.old_size)
    => /\ panic = NoPanic
       /\ last.n = last.len
       /\ SizeOf(queue, dev, last.h) = last.off + last.len
       /\ ReadBack(last.h, last.off, last.len)
            = Returned(last.len, PatBuf(last.len, last.pat))

\* C3: when write_at has returned, the device holds its effects: reading the
\* file through an empty block cache returns the written bytes.
C3_Durable ==
  (last.op = "write_at" /\ panic = NoPanic)
    => ReadBackFromDevice(last.h, last.off, last.len)
         = Returned(last.len, PatBuf(last.len, last.pat))

\* C4: no pool entry is evicted with bytes that the device does not hold
\* once the entry is dropped, so a later get_block_cache of the block
\* returns the last modified contents.
C4_NoLostUpdate == dropped = {}

\* C5: read_at returns 0 bytes when offset >= size and min(len, size -
\* offset) bytes otherwise, they are the file's bytes from offset on, it does
\* not panic, and no file's size or contents change.
C5_ReadAt ==
  [][Calls("read_at", "read") =>
       /\ panic' = NoPanic
       /\ last'.n = IF last'.off >= SizeOf(queue, dev, last'.h) THEN 0
                    ELSE Min(last'.len, SizeOf(queue, dev, last'.h) - last'.off)
       /\ last'.data = SubSeq(FileBytes(queue, dev, last'.h).data,
                              last'.off + 1, last'.off + last'.n)
       /\ \A f \in files :
            /\ SizeOf(queue', dev', f) = SizeOf(queue, dev, f)
            /\ FileBytes(queue', dev', f) = FileBytes(queue, dev, f)]_vars

\* C6: the bytes that the loop of 10-byte read_at calls collected are the
\* bytes that one read_at of the file's length from offset 0 returns, and
\* the loop made ceil(size / 10) reads that returned bytes.
C6_ChunkedRead ==
  last.op = "read_chunks"
    => /\ panic = NoPanic
       /\ ReadBack(last.h, 0, last.old_size).data = last.data
       /\ last.reads = (last.old_size + CHUNK - 1) \div CHUNK

\* C7: clear does not panic; after it read_at(0, _) returns 0 and the data
\* bitmap has total_blocks(old_size) fewer bits set than before.
C7_Clear ==
  [][Calls("clear", "clear") =>
       /\ panic' = NoPanic
       /\ ReadBackNext(last'.h, 0, CHUNK) = Returned(0, <<>>)
       /\ PopCount(queue', dev', fs.data_bitmap)
            = PopCount(queue, dev, fs.data_bitmap)
                - DiskInode_total_blocks(SizeOf(queue, dev, last'.h))]_vars

\* C8: a clear that directly follows a clear of the same inode does not
\* panic and leaves every cached block and every device block as the first
\* clear left it.
C8_IdempotentClear ==
  [][(last.op = "clear" /\ Calls("clear", "clear") /\ last'.h = last.h) =>
       /\ panic' = NoPanic
       /\ queue' = queue
       /\ dev' = dev]_vars

\* the second of two clears of a file that held data has returned
C8_ClearedTwice ==
  /\ last.op = "clear" /\ prev.op = "clear" /\ prev.h = last.h
  /\ prev.old_size > 0
  /\ panic = NoPanic

\* C9: a clear that returns leaves the inode bitmap, the result of ls, the
\* result of find for every name, and the size and contents of every other
\* file as they were.
C9_ClearFrame ==
  [][(Calls("clear", "clear") /\ panic' = NoPanic) =>
       /\ BitmapBlocks(queue', dev', fs.inode_bitmap)
            = BitmapBlocks(queue, dev, fs.inode_bitmap)
       /\ DirList(queue', dev', fs) = DirList(queue, dev, fs)
       /\ \A name \in Names :
            Lookup(queue', dev', fs, name) = Lookup(queue, dev, fs, name)
       /\ \A f \in files \ {last'.h} :
            /\ SizeOf(queue', dev', f) = SizeOf(queue, dev, f)
            /\ FileBytes(queue', dev', f) = FileBytes(queue, dev, f)]_vars

\* C10: while the program runs, the root DiskInode is a Directory of size
\* 32 * k and ls returns the k names for which create returned Some, in
\* creation order.
C10_RootDirectory ==
  (mounted /\ panic = NoPanic)
    => /\ TypeOf(queue, dev, root_inode(fs)) = TYPE_DIRECTORY
       /\ SizeOf(queue, dev, root_inode(fs)) = DIR_ENTRY_SZ * Len(created)
       /\ LsOutcome(Inode_ls(Mach, root_inode(fs)))
            = [panic |-> NoPanic, v |-> created]

\* an earlier create(name) returned Some
WasCreated(name) == \E i \in 1..Len(created) : created[i] = name

\* C11: create(name) with a name that an earlier create put in the directory
\* returns None, and the inode bitmap, the data bitmap, the directory size
\* and the directory entries are as before the call.
C11_DuplicateCreate ==
  [][(Calls("create", "create") /\ WasCreated(last'.name)) =>
       /\ panic' = NoPanic
       /\ last'.ret = NoInode
       /\ BitmapBlocks(queue', dev', fs.inode_bitmap)
            = BitmapBlocks(queue, dev, fs.inode_bitmap)
       /\ BitmapBlocks(queue', dev', fs.data_bitmap)
            = BitmapBlocks(queue, dev, fs.data_bitmap)
       /\ SizeOf(queue', dev', root_inode(fs))
            = SizeOf(queue, dev, root_inode(fs))
       /\ DirList(queue', dev', fs) = DirList(queue, dev, fs)]_vars

\* every block of the file system as a client can come to read it: the
\* device with the cached buffers over it
Image(q, d) == Contents(q, d).dev

\* C12: find(name) on the root returns Some exactly when an earlier
\* create(name) returned Some, and then the Inode has the block id and offset
\* of the handle that create returned; for any other name it returns None
\* and no block of the file system changes.
C12_Find ==
  [][Calls("find", "lookup") =>
       /\ panic' = NoPanic
       /\ (last'.ret # NoInode) <=> WasCreated(last'.name)
       /\ (last.op = "create" /\ last.name = last'.name /\ last.ret # NoInode)
            => last'.ret = last.ret
       /\ ~WasCreated(last'.name) => Image(queue', dev') = Image(queue, dev)]_vars

(* ----------------- a client that only creates new files ---------------- *)
\* how many create calls a run makes
MaxFiles == 64

\* the first byte of a run's names
Prefixes == {97, 98, 99}

\* the k-th name of a run: the prefix and two decimal digits
FreshName(p, k) == <<p, 48 + (k \div 10), 48 + (k % 10)>>

\* the next create of a run: a name that no earlier call of the run used
CreateFresh(p) ==
  /\ calls["create"] < MaxFiles
  /\ last.op = "create" => last.name[1] = p
  /\ Create(FreshName(p, calls["create"]))

NextFill ==
  \/ TfsCreate
  \/ \E p \in Prefixes : CreateFresh(p)

SpecFill == Init /\ [][NextFill]_vars

\* C13: on an image with one inode-bitmap block, a create with a fresh name
\* returns Some without a panic, unless every bit of the inode bitmap is
\* already set, and then it panics in alloc_inode (unwrap of None).
C13_CreateUntilFull ==
  [][Calls("create", "create") =>
       IF PopCount(queue, dev, fs.inode_bitmap) = Bitmap_maxium(fs.inode_bitmap)
       THEN panic' = UnwrapNone
       ELSE panic' = NoPanic /\ last'.ret # NoInode]_vars

(* --------------------- ownership of the data blocks -------------------- *)
\* the set bits of bitmap block blk, numbered from base
SetBitsOfBlock(blk, base) ==
  IF blk = ZeroBlock THEN {}
  ELSE {base + 8 * (x[1] - 1) + x[2] :
          x \in {y \in (1..BLOCK_SZ) \X (0..7) : BitOf(blk[y[1]], y[2]) = 1}}

\* the block ids whose bit is set in the data bitmap
AllocatedData(q, d, f) ==
  UNION {{get_data_block_id(f, bit) :
            bit \in SetBitsOfBlock(ViewOf(q, d, f.data_bitmap.start_block_id + i),
                                   i * BLOCK_BITS)} :
         i \in 0..(f.data_bitmap.blocks - 1)}

\* the block ids referenced through the indirect2 block blk2 for n data
\* blocks past INDIRECT1_BOUND, from its entry a on: each indirect1 block
\* and the entries in use in it
RECURSIVE RefsIndirect2(_, _, _, _, _)
RefsIndirect2(q, d, blk2, a, n) ==
  IF n <= 0 THEN <<>>
  ELSE <<Entry(blk2, a)>>
         \o EntriesOf(ViewOf(q, d, Entry(blk2, a)), 0, Min(n, INODE_INDIRECT1_COUNT))
         \o RefsIndirect2(q, d, blk2, a + 1, n - INODE_INDIRECT1_COUNT)

\* every reference to a block that DiskInode di holds for n data blocks
RefsOfDiskInode(q, d, di, n) ==
  SubSeq(di.direct, 1, Min(n, INODE_DIRECT_COUNT))
    \o (IF n > INODE_DIRECT_COUNT
        THEN <<di.indirect1>>
               \o EntriesOf(ViewOf(q, d, di.indirect1), 0,
                            Min(n, INDIRECT1_BOUND) - INODE_DIRECT_COUNT)
        ELSE <<>>)
    \o (IF n > INDIRECT1_BOUND
        THEN <<di.indirecr2>>
               \o RefsIndirect2(q, d, ViewOf(q, d, di.indirecr2), 0,
                                n - INDIRECT1_BOUND)
        ELSE <<>>)

\* the references of the DiskInode that handle h addresses
RefsOf(q, d, h) ==
  RefsOfDiskInode(q, d, DiskInodeAt(ViewOf(q, d, h.block_id), h.offset),
                  _data_blocks(SizeOf(q, d, h)))

Range(s) == {s[i] : i \in 1..Len(s)}

\* the inodes in use: the root and every Inode handed out
Live == {root_inode(fs)} \cup files

\* C14: a bit of the data bitmap is set iff exactly one live DiskInode
\* references the block, exactly once: no DiskInode references a block
\* twice, no two DiskInodes reference the same block, and the referenced
\* blocks are the blocks whose bit is set.
C14_ExclusiveOwnership ==
  (mounted /\ panic = NoPanic)
    => /\ \A h \in Live :
            Cardinality(Range(RefsOf(queue, dev, h))) = Len(RefsOf(queue, dev, h))
       /\ \A h1, h2 \in Live :
            h1 # h2 => Range(RefsOf(queue, dev, h1))
                         \cap Range(RefsOf(queue, dev, h2)) = {}
       /\ UNION {Range(RefsOf(queue, dev, h)) : h \in Live}
            = AllocatedData(queue, dev, fs)

\* C15: for every live inode, each block id reachable from it (direct
\* entries below data_blocks, indirect1, indirect2 and the entries of those
\* index blocks) has its bit set in the data bitmap.
C15_ReachableAllocated ==
  (mounted /\ panic = NoPanic)
    => \A h \in Live :
         Range(RefsOf(queue, dev, h)) \subseteq AllocatedData(queue, dev, fs)

(* ------------- images of several sizes, created and reopened ----------- *)
\* the inode_bitmap_blocks arguments of create
MaxInodeBitmapBlocks == 2

\* how many blocks an image has past its SuperBlock and inode area
MaxSpareBlocks == 50

\* the total_blocks arguments that create accepts with inode_bitmap_blocks =
\* ibb: from the smallest on, around the size at which a second data bitmap
\* block is needed, and the packer's 16 * 2048
ImageSizes(ibb) ==
  {1 + create_layout(DEVICE_BLOCKS, ibb).inode_area_blocks + e :
     e \in (0..MaxSpareBlocks) \cup ((BLOCK_BITS + 1)..(BLOCK_BITS + 3))}
    \cup {DEVICE_BLOCKS}

\* TinyFileSystem::create(block_file, total_blocks, inode_bitmap_blocks)
CreateImage(total_blocks, inode_bitmap_blocks) ==
  /\ panic = NoPanic /\ ~mounted
  /\ Mounted(TinyFileSystem_create(Mach, total_blocks, inode_bitmap_blocks),
             "tfs_create")

\* the process that created the image has ended, and the next process opens
\* the image: TinyFileSystem::open(block_file) with an empty pool
Reopen ==
  /\ panic = NoPanic /\ mounted /\ last.op = "tfs_create"
  /\ Mounted(TinyFileSystem_open(MachOf(<<>>, dev, dropped)), "tfs_open")

NextLayout ==
  \/ \E ibb \in 1..MaxInodeBitmapBlocks :
       \E total \in ImageSizes(ibb) : CreateImage(total, ibb)
  \/ Reopen

SpecLayout == Init /\ [][NextLayout]_vars

\* the SuperBlock in block 0 as the file system holds it
SuperBlockOf(q, d) == SuperBlockAt(ViewOf(q, d, 0))

\* the areas of SuperBlock sb cover the image exactly
Covers(sb) ==
  1 + sb.inode_bitmap_blocks + sb.inode_area_blocks + sb.data_bitmap_blocks
    + sb.data_area_blocks = sb.total_blocks

\* C16: the SuperBlock that create writes satisfies 1 + inode_bitmap_blocks
\* + inode_area_blocks + data_bitmap_blocks + data_area_blocks =
\* total_blocks.
C16_LayoutSum ==
  (last.op = "tfs_create" /\ panic = NoPanic)
    => Covers(SuperBlockOf(queue, dev))

\* the DiskInode that handle h addresses, as the device holds it
DiskInodeOnDevice(d, h) == DiskInodeAt(read_block(d, h.block_id), h.offset)

\* C17: when create has returned, block 0 of the device holds the SuperBlock
\* that create computed, with magic 0x3B800001, and the root DiskInode on the
\* device is a Directory of size 0; an open of the device by the next
\* process passes the is_valid assertion, and then the root is a Directory
\* and ls() is empty.
C17_CreateThenOpen ==
  [][(last.op = "tfs_create" /\ Calls("tfs_open", "mount")) =>
       /\ SuperBlock_is_valid(SuperBlockAt(read_block(dev, 0)))
       /\ SuperBlockAt(read_block(dev, 0)) = SuperBlockOf(queue, dev)
       /\ DiskInodeOnDevice(dev, root_inode(fs)).type_ = TYPE_DIRECTORY
       /\ DiskInodeOnDevice(dev, root_inode(fs)).size = 0
       /\ panic' = NoPanic
       /\ TypeOf(queue', dev', root_inode(fs')) = TYPE_DIRECTORY
       /\ LsOutcome(Inode_ls(MachOf(queue', dev', dropped'), root_inode(fs')))
            = [panic |-> NoPanic, v |-> <<>>]]_vars

\* the TinyFileSystem that an open of the image returns when block 0 of the
\* image is the SuperBlock that create wrote
Reopened(q, d) == TinyFileSystem_open(Contents(q, d))

\* C18: open reconstructs the layout that create computed for the image:
\* the inode bitmap starts at block 1 and spans inode_bitmap_blocks blocks,
\* the data bitmap starts at 1 + inode_bitmap_blocks + inode_area_blocks and
\* spans data_bitmap_blocks blocks, inode_area_start_block is 1 +
\* inode_bitmap_blocks and data_area_start_block is 1 + inode_bitmap_blocks
\* + inode_area_blocks + data_bitmap_blocks.
C18_OpenLayout ==
  (last.op = "tfs_create" /\ panic = NoPanic)
    => /\ Reopened(queue, dev).m.panic = NoPanic
       /\ Reopened(queue, dev).fs = fs
       /\ fs.inode_bitmap
            = Bitmap_new(1, SuperBlockOf(queue, dev).inode_bitmap_blocks)
       /\ fs.data_bitmap
            = Bitmap_new(1 + SuperBlockOf(queue, dev).inode_bitmap_blocks
                           + SuperBlockOf(queue, dev).inode_area_blocks,
                         SuperBlockOf(queue, dev).data_bitmap_blocks)
       /\ fs.inode_area_start_block
            = 1 + SuperBlockOf(queue, dev).inode_bitmap_blocks
       /\ fs.data_area_start_block
            = 1 + SuperBlockOf(queue, dev).inode_bitmap_blocks
                + SuperBlockOf(queue, dev).inode_area_blocks
                + SuperBlockOf(queue, dev).data_bitmap_blocks

(* ---------------- the packer: create a file, then fill it -------------- *)
\* how many files the packer puts in the image
MaxApps == 6

\* the lengths of the files' data: a few bytes, more than a block, and one
\* block more than the direct entries of a DiskInode address
AppSizes == {15, BLOCK_SZ + 1, (INODE_DIRECT_COUNT + 1) * BLOCK_SZ}

\* let new_inode = root_inode.create(name).unwrap()
PackCreate ==
  /\ calls["create"] < MaxApps
  /\ last.op \in {"tfs_create", "write_at"}
  /\ Create(FreshName(97, calls["create"]))

\* new_inode.write_at(0, app_data)
PackWrite(len) ==
  /\ last.op = "create" /\ last.ret # NoInode
  /\ WriteAt(last.ret, 0, len, 1)

NextPack ==
  \/ TfsCreate
  \/ PackCreate
  \/ \E len \in AppSizes : PackWrite(len)

SpecPack == Init /\ [][NextPack]_vars

\* block 0 is in the pool
Cached(q, block_id) == IndexOf(q, block_id) # 0

\* C19: no Inode operation changes the contents of block 0 (the SuperBlock),
\* neither the device's block 0 nor the buffer of block 0 in the pool.
C19_SuperBlockImmutable ==
  [][(mounted /\ mounted') =>
       /\ read_block(dev', 0) = read_block(dev, 0)
       /\ (Cached(queue, 0) /\ Cached(queue', 0))
            => ViewOf(queue', dev', 0) = ViewOf(queue, dev, 0)]_vars

(* ------------------ threads that share one mount ----------------------- *)
\* Mutex::lock without the wait for the holder
Mutex_lock_no_wait(holder) == TRUE

\* spin::Mutex::lock returns once no thread holds the mutex
Mutex_lock(holder) == holder = 0

\* the Inode operation of call c, from its first block access to its last:
\* what it returns, with the machine
Apply(m, f, c, overflow_checks) ==
  CASE c.op = "create" -> Inode_create(m, f, c.h, c.name, overflow_checks)
    [] c.op = "find" -> Inode_find(m, f, c.h, c.name)
    [] c.op = "ls" -> Inode_ls(m, c.h)
    [] c.op = "read_at" -> Inode_read_at(m, c.h, c.off, c.len)
    [] c.op = "write_at" ->
         Inode_write_at(m, f, c.h, c.off, PatBuf(c.len, c.pat), overflow_checks)
    [] c.op = "clear" -> [m |-> Inode_clear(m, f, c.h, overflow_checks)]

\* what a call returned, without the machine
ResultOf(r) == [r EXCEPT !.m = r.m.panic]

\* the pool, the device and the result that a call leaves
Outcome(r) == [queue |-> r.m.queue, dev |-> r.m.dev, result |-> ResultOf(r)]

\* the calls a thread may make: every Inode operation, on the root and on
\* the files handed out so far; thread t writes its own bytes
ThreadCalls(t) ==
  {[Call("create", root_inode(fs)) EXCEPT !.name = <<98>>],
   [Call("find", root_inode(fs)) EXCEPT !.name = <<97>>],
   Call("ls", root_inode(fs))}
    \cup {[Call("read_at", h) EXCEPT !.len = CHUNK] : h \in files}
    \cup {[Call("write_at", h) EXCEPT !.len = CHUNK, !.pat = t] : h \in files}
    \cup {Call("clear", h) : h \in files}

\* thread t calls an Inode operation: it reaches self.fs.lock()
ThreadCall(t, c) ==
  /\ panic = NoPanic /\ mounted
  /\ threads[t].at = "idle"
  /\ threads' = [threads EXCEPT ![t] = [@ EXCEPT !.at = "waiting", !.call = c]]
  /\ UNCHANGED <<queue, dev, dropped, mounted, fs, files, panic, last, prev, created, calls, fs_lock, handles, dev_b>>

\* let fs = self.fs.lock() returns in thread t
ThreadLock(t) ==
  /\ panic = NoPanic
  /\ threads[t].at = "waiting"
  /\ Mutex_lock(fs_lock)
  /\ fs_lock' = t
  /\ threads' = [threads EXCEPT ![t] =
       [@ EXCEPT !.at = "locked",
                 !.turn = 1 + Cardinality({u \in Threads : threads[u].turn > 0}),
                 !.raced = \E u \in Threads \ {t} : threads[u].at = "waiting",
                 !.expect = {Outcome(Apply(Mach, fs, threads[t].call, oc)) :
                               oc \in Builds}]]
  /\ UNCHANGED <<queue, dev, dropped, mounted, fs, files, panic, last, prev, created, calls, handles, dev_b>>

\* the body of thread t's operation left r
ThreadRan(r, t) ==
  /\ queue' = r.m.queue
  /\ dev' = r.m.dev
  /\ dropped' = r.m.dropped
  /\ panic' = r.m.panic
  /\ threads' = [threads EXCEPT ![t] = [@ EXCEPT !.at = "ran",
                                                 !.result = ResultOf(r)]]
  /\ UNCHANGED <<mounted, fs, files, last, prev, created, calls, fs_lock, handles, dev_b>>

\* thread t runs the body of its operation, with the guard `fs` alive
ThreadRun(t) ==
  /\ panic = NoPanic
  /\ threads[t].at = "locked"
  /\ \E oc \in Builds : ThreadRan(Apply(Mach, fs, threads[t].call, oc), t)

\* thread t returns: the MutexGuard is dropped
ThreadReturn(t) ==
  /\ panic = NoPanic
  /\ threads[t].at = "ran"
  /\ fs_lock' = 0
  /\ threads' = [threads EXCEPT ![t] = [@ EXCEPT !.at = "done"]]
  /\ UNCHANGED <<queue, dev, dropped, mounted, fs, files, panic, last, prev, created, calls, handles, dev_b>>

\* no thread has called anything yet
NoneStarted == \A t \in Threads : threads[t].at = "idle"

\* the main thread makes the image and one file, then the threads run
NextThreads ==
  \/ NoneStarted /\ TfsCreate
  \/ NoneStarted /\ calls["create"] < 1 /\ Create(<<97>>)
  \/ \E t \in Threads : \E c \in ThreadCalls(t) : ThreadCall(t, c)
  \/ \E t \in Threads : ThreadLock(t)
  \/ \E t \in Threads : ThreadRun(t)
  \/ \E t \in Threads : ThreadReturn(t)

SpecThreads == Init /\ [][NextThreads]_vars

\* thread t is between the first block access of its operation and its
\* return
InProgress(t) == threads[t].at \in {"locked", "ran"}

\* C20: at most one Inode operation of the mount is in progress, it is the
\* one whose thread holds the mutex, and when its body has run the pool, the
\* device and its result are what the operation leaves when it runs alone
\* from the state in which it got the lock: concurrent calls take effect one
\* after the other, in the order of their lock acquisitions.
C20_Serialized ==
  /\ \A t \in Threads : InProgress(t) => fs_lock = t
  /\ \A t, u \in Threads : (InProgress(t) /\ InProgress(u)) => t = u
  /\ \A t \in Threads :
       threads[t].at = "ran"
         => [queue |-> queue, dev |-> dev, result |-> threads[t].result]
              \in threads[t].expect

\* every thread called write_at on the same file, one got the lock while
\* another was waiting for it, and all have returned: the file holds the
\* bytes of the thread that got the lock last
C20_TwoWriters ==
  /\ \A t \in Threads : threads[t].at = "done" /\ threads[t].call.op = "write_at"
  /\ \A t, u \in Threads : threads[t].call.h = threads[u].call.h
  /\ \E t \in Threads : threads[t].raced
  /\ \E t \in Threads :
       /\ threads[t].turn = MaxThreads
       /\ FileBytes(queue, dev, threads[t].call.h).data
            = PatBuf(threads[t].call.len, threads[t].call.pat)

(* ----------------------------- lock order ------------------------------ *)
\* the step is a call of an Inode operation by the main thread
InodeCall == mounted /\ last' # last /\ last'.op \notin {"tfs_create", "tfs_open"}

\* C21: a thread that holds the mutex of a BlockCache does not acquire the
\* BlockCacheManager mutex: within every Inode operation each
\* BLOCK_CACHE_MANAGER.lock() is made with no BlockCache mutex held.
C21_LockHierarchy == [][InodeCall => ~last'.inverted]_vars

(* ------------------------------ BlockCache ----------------------------- *)
\* C22: BlockCache::modify leaves modified = TRUE on return, also when the
\* closure changes nothing; BlockCache::sync writes the buffer to the device
\* exactly when modified is TRUE and leaves modified = FALSE; a cache loaded
\* by BlockCache::new has modified = FALSE.  Stated of every entry of the
\* pool and every block the pool holds, in every reachable state.
C22_ModifiedFlag ==
  \A i \in 1..Len(queue) :
    /\ BlockCache_modify(queue[i], queue[i].cache).modified
    /\ ~BlockCache_sync(dev, queue[i]).e.modified
    /\ queue[i].modified =>
         read_block(BlockCache_sync(dev, queue[i]).dev, queue[i].block_id) = queue[i].cache
    /\ ~queue[i].modified => BlockCache_sync(dev, queue[i]).dev = dev
    /\ ~BlockCache_new(dev, queue[i].block_id).modified

(* --------------------------- BlockCacheManager ------------------------- *)
\* C23: in every reachable state the pool holds at most BLOCK_CACHE_SIZE
\* entries and at most one entry per block id, and get_block_cache for an id
\* that is in the pool leaves the pool's contents and order as they are.
C23_PoolBounded ==
  /\ Len(queue) <= BLOCK_CACHE_SIZE
  /\ \A i, j \in 1..Len(queue) : queue[i].block_id = queue[j].block_id => i = j
  /\ \A i \in 1..Len(queue) :
       /\ BlockCacheManager_get_block_cache(MachOf(queue, dev, dropped), queue[i].block_id).queue = queue
       /\ BlockCacheManager_get_block_cache(MachOf(queue, dev, dropped), queue[i].block_id).held = <<queue[i].block_id>>

\* a full pool after a write that had to evict entries
C23_FullPool == Len(queue) = BLOCK_CACHE_SIZE /\ last.op = "write_at" /\ last.len > BLOCK_SZ

(* ------------------------- clients of the cache ------------------------ *)
\* A program that uses the block cache directly: it calls get_block_cache,
\* keeps the Arc it gets, and drops Arcs it has kept.
MaxGets == 17
MaxDrops == 2
CacheBlocks == 0..(BLOCK_CACHE_SIZE + 1)

Without(s, x) == SelectSeq(s, LAMBDA y : y # x)

CacheGot(m, block_id) ==
  /\ queue' = m.queue
  /\ dev' = m.dev
  /\ dropped' = m.dropped
  /\ panic' = m.panic
  /\ handles' = IF Ok(m) THEN m.held ELSE handles
  /\ last' = [NoCall EXCEPT !.op = "get_block_cache", !.n = block_id]
  /\ prev' = last
  /\ calls' = [calls EXCEPT !["get"] = @ + 1]
  /\ UNCHANGED <<mounted, fs, files, created, fs_lock, threads, dev_b>>

\* let c = get_block_cache(block_id, dev); until the pool is full the ids
\* are asked for in increasing order
CacheGet(block_id) ==
  /\ panic = NoPanic /\ ~mounted /\ calls["get"] < MaxGets
  /\ Len(queue) < BLOCK_CACHE_SIZE => block_id = Len(queue)
  /\ CacheGot(BlockCacheManager_get_block_cache([Mach EXCEPT !.held = Without(handles, block_id)], block_id), block_id)

\* drop(c) of the i-th Arc the client keeps
CacheDrop(i) ==
  /\ panic = NoPanic /\ ~mounted /\ calls["drop"] < MaxDrops
  /\ handles' = RemoveAt(handles, i)
  /\ last' = [NoCall EXCEPT !.op = "drop", !.n = handles[i]]
  /\ prev' = last
  /\ calls' = [calls EXCEPT !["drop"] = @ + 1]
  /\ UNCHANGED <<queue, dev, dropped, mounted, fs, files, panic, created, fs_lock, threads, dev_b>>

NextCache ==
  \/ \E block_id \in CacheBlocks : CacheGet(block_id)
  \/ \E i \in 1..Len(handles) : CacheDrop(i)

SpecCache == Init /\ [][NextCache]_vars

\* the step is a get_block_cache that misses while the pool is full
FullMiss ==
  /\ last'.op = "get_block_cache" /\ calls'["get"] = calls["get"] + 1
  /\ Len(queue) = BLOCK_CACHE_SIZE
  /\ \A i \in 1..Len(queue) : queue[i].block_id # last'.n

HeldByClient(i) == \E k \in 1..Len(handles) : handles[k] = queue[i].block_id

\* C24: a get_block_cache that misses with a full pool removes exactly one
\* entry, the first in pool order that no client holds, and appends the new
\* one; an entry a client holds stays in the pool; when a client holds every
\* entry the call panics with "Run out of BlockCache!" and the pool is as it
\* was.
C24_Eviction ==
  [][FullMiss =>
       /\ \A k \in 1..Len(handles) : \E i \in 1..Len(queue') : queue'[i].block_id = handles[k]
       /\ IF \A i \in 1..Len(queue) : HeldByClient(i)
            THEN panic' = "Run out of BlockCache!" /\ queue' = queue /\ dev' = dev
            ELSE /\ panic' = NoPanic
                 /\ \E v \in 1..Len(queue) :
                      /\ ~HeldByClient(v)
                      /\ \A j \in 1..(v - 1) : HeldByClient(j)
                      /\ Len(queue') = BLOCK_CACHE_SIZE
                      /\ \A j \in 1..(v - 1) : queue'[j] = queue[j]
                      /\ \A j \in v..(BLOCK_CACHE_SIZE - 1) : queue'[j] = queue[j + 1]
                      /\ queue'[BLOCK_CACHE_SIZE].block_id = last'.n]_vars

\* a miss on a full pool has evicted an entry that was not the oldest, the
\* oldest being held by the client
C24_SkippedHeld ==
  /\ last.op = "get_block_cache" /\ last.n >= BLOCK_CACHE_SIZE /\ panic = NoPanic
  /\ Len(queue) = BLOCK_CACHE_SIZE /\ queue[1].block_id = 0
  /\ queue[BLOCK_CACHE_SIZE].block_id = last.n

(* ------------------------------ file growth ---------------------------- *)
\* (offset, length) of write_at calls that make an empty file grow to one
\* block, to the first block behind the direct ones, and to the first block
\* behind those of indirect1, and of one that fills two blocks behind the
\* direct ones
GrowArgs ==
  {<<0, 1>>, <<DIRECT_BOUND * BLOCK_SZ, 1>>, <<INDIRECT1_BOUND * BLOCK_SZ, 1>>,
   <<0, (DIRECT_BOUND + 2) * BLOCK_SZ>>}

NextGrow ==
  \/ TfsCreate
  \/ \E name \in Names : May("create", MaxCreates) /\ Create(name)
  \/ \E h \in files, a \in GrowArgs, pat \in Patterns :
       May("write", MaxWrites) /\ WriteAt(h, a[1], a[2], pat)
  \/ \E h \in files : May("clear", MaxClears) /\ Clear(h)

SpecGrow == Init /\ [][NextGrow]_vars

\* C25: during one Inode operation the calling thread holds at most 3
\* entries of the pool at the same time, and a program of one thread never
\* panics with "Run out of BlockCache!".
C25_AtMostThreeHeld ==
  /\ panic # "Run out of BlockCache!"
  /\ (mounted /\ last.op \notin {"tfs_create", "tfs_open"}) => last.maxheld <= 3

\* a write_at that reached the indirect2 blocks, holding the DiskInode's
\* block, the indirect2 block and an indirect1 block at once
C25_ThreeHeld == last.op = "write_at" /\ last.maxheld = 3

(* -------------------------------- Bitmap ------------------------------- *)
\* A program that uses a Bitmap of MaxBitmapBlocks blocks directly, on a
\* device whose bitmap blocks hold one of a few patterns.
MaxBitmapBlocks == 2
MaxAllocs == 3
MaxDeallocs == 2

TestBitmap == Bitmap_new(1, MaxBitmapBlocks)

\* a block whose first n bits are set
OnesBelow(n) ==
  [i \in 1..BLOCK_SZ |->
     IF 8 * i <= n THEN 255
     ELSE IF 8 * (i - 1) < n THEN Pow2(n - 8 * (i - 1)) - 1 ELSE 0]

BlockPatterns ==
  {ZeroBlock, OnesBelow(3), OnesBelow(70), OnesBelow(BLOCK_BITS - 1), OnesBelow(BLOCK_BITS)}

\* the bits passed to dealloc
TestBits == {0, 2, 64, 69, BLOCK_BITS - 2, BLOCK_BITS, BLOCK_BITS + 1, 2 * BLOCK_BITS - 1}

InitBitmap ==
  /\ queue = <<>>
  /\ \E b1, b2 \in BlockPatterns : dev = write_block(write_block(<<>>, 1, b1), 2, b2)
  /\ dropped = {}
  /\ mounted = FALSE
  /\ fs = NoFs
  /\ files = {}
  /\ panic = NoPanic
  /\ last = NoCall
  /\ prev = NoCall
  /\ created = <<>>
  /\ calls = [k \in Kinds |-> 0]
  /\ fs_lock = 0
  /\ threads = [t \in Threads |-> Idle]
  /\ handles = <<>>
  /\ dev_b = <<>>

\* a call of the Bitmap left the machine m
BitmapDone(m, k, n) ==
  /\ queue' = m.queue
  /\ dev' = m.dev
  /\ dropped' = m.dropped
  /\ panic' = m.panic
  /\ last' = [NoCall EXCEPT !.op = k, !.n = n]
  /\ prev' = last
  /\ calls' = [calls EXCEPT ![k] = @ + 1]
  /\ UNCHANGED <<mounted, fs, files, created, fs_lock, threads, handles, dev_b>>

BitmapAllocated(r) == BitmapDone(r.m, "alloc", r.pos)

\* bitmap.alloc(&dev)
BitmapAlloc ==
  /\ panic = NoPanic /\ calls["alloc"] < MaxAllocs
  /\ BitmapAllocated(Bitmap_alloc(Mach, TestBitmap))

\* bitmap.dealloc(&dev, bit)
BitmapDealloc(bit) ==
  /\ panic = NoPanic /\ calls["dealloc"] < MaxDeallocs
  /\ BitmapDone(Bitmap_dealloc(Mach, TestBitmap, bit), "dealloc", bit)

NextBitmap ==
  \/ BitmapAlloc
  \/ \E bit \in TestBits : BitmapDealloc(bit)

SpecBitmap == InitBitmap /\ [][NextBitmap]_vars

\* bit n of the bitmap as the file system sees it
BitmapBit(q, d, n) ==
  (ViewOf(q, d, 1 + (n \div BLOCK_BITS))[((n % BLOCK_BITS) \div 8) + 1] \div Pow2(n % 8)) % 2

\* every bit of the bitmap is set
BitmapFull == \A b \in 1..MaxBitmapBlocks : ViewOf(queue, dev, b) = OnesBelow(BLOCK_BITS)

\* every bit below n is set: the blocks before n's, the bytes before n's in
\* its block, and the lower bits of its byte
SetBelow(n) ==
  /\ \A b \in 1..(n \div BLOCK_BITS) : ViewOf(queue, dev, b) = OnesBelow(BLOCK_BITS)
  /\ \A i \in 1..((n % BLOCK_BITS) \div 8) : ViewOf(queue, dev, 1 + (n \div BLOCK_BITS))[i] = 255
  /\ ViewOf(queue, dev, 1 + (n \div BLOCK_BITS))[((n % BLOCK_BITS) \div 8) + 1] % Pow2(n % 8) = Pow2(n % 8) - 1

\* the step changes bit n of the bitmap by `delta` (1 sets it, -1 clears it,
\* 0 leaves it) and no other bit
OnlyBit(n, delta) ==
  \A b \in 1..MaxBitmapBlocks :
    ViewOf(queue', dev', b) =
      IF b = 1 + (n \div BLOCK_BITS)
        THEN [ViewOf(queue, dev, b) EXCEPT ![((n % BLOCK_BITS) \div 8) + 1] = @ + delta * Pow2(n % 8)]
        ELSE ViewOf(queue, dev, b)

AllocStep == last'.op = "alloc" /\ calls'["alloc"] = calls["alloc"] + 1

DeallocStep == last'.op = "dealloc" /\ calls'["dealloc"] = calls["dealloc"] + 1

\* C26: Bitmap::alloc returns the lowest clear bit of the whole bitmap and
\* sets that bit and no other; it returns None and changes no bit exactly
\* when every bit is set; on a zeroed bitmap it returns 0, and right after a
\* dealloc it returns a bit no higher than the freed one.
C26_AllocLowest ==
  [][AllocStep =>
       /\ panic' = NoPanic
       /\ IF BitmapFull
            THEN last'.n = -1 /\ OnlyBit(0, 0)
            ELSE /\ last'.n \in 0..(MaxBitmapBlocks * BLOCK_BITS - 1)
                 /\ BitmapBit(queue, dev, last'.n) = 0
                 /\ SetBelow(last'.n)
                 /\ OnlyBit(last'.n, 1)
       /\ (\A b \in 1..MaxBitmapBlocks : ViewOf(queue, dev, b) = ZeroBlock) => last'.n = 0
       /\ last.op = "dealloc" => last'.n \in 0..last.n]_vars

\* a bit of the second block was freed and the next alloc returned it, bits
\* above it being clear
C26_FreedFirst ==
  /\ last.op = "alloc" /\ prev.op = "dealloc" /\ last.n = prev.n /\ last.n >= BLOCK_BITS
  /\ BitmapBit(queue, dev, MaxBitmapBlocks * BLOCK_BITS - 1) = 0

\* C27: Bitmap::dealloc(bit) on a set bit clears that bit and no other; on a
\* clear bit it panics on its assertion and the bitmap is as it was.
C27_Dealloc ==
  [][DeallocStep =>
       IF BitmapBit(queue, dev, last'.n) = 1
         THEN panic' = NoPanic /\ OnlyBit(last'.n, -1) /\ BitmapBit(queue', dev', last'.n) = 0
         ELSE panic' = "assertion failed: bitmap bit not allocated" /\ OnlyBit(last'.n, 0)]_vars

\* the same bit was freed twice in a row: the second dealloc panicked
C27_DoubleFree ==
  /\ last.op = "dealloc" /\ prev.op = "dealloc" /\ last.n = prev.n
  /\ panic = "assertion failed: bitmap bit not allocated"

(* ------------------------------ DiskInode ------------------------------ *)
\* the DiskInode of h as the file system sees it
DiskInodeView(h) == DiskInodeAt(ViewOf(queue, dev, h.block_id), h.offset)

\* what get_block_id(i) of h returns when it is the next call
MappedId(h, i) == get_block_id(Contents(queue, dev), DiskInodeView(h), i).id

\* C28: DiskInode::increase_size, given the blocks_num_needed(new_size) ids
\* that Inode::increase_size allocates, consumes them without running out of
\* ids, underflowing or indexing out of range, for every new size up to the
\* maximum; afterwards get_block_id maps the logical blocks of the file to
\* distinct blocks of the data area.
C28_IncreaseSize ==
  (mounted /\ last.op = "write_at") =>
     /\ panic \notin {UnwrapNone, SubOverflow, IndexOOB}
     /\ panic = NoPanic =>
          \A i, j \in 0..(data_blocks(DiskInodeView(last.h)) - 1) :
            /\ MappedId(last.h, i) >= fs.data_area_start_block
            /\ MappedId(last.h, i) = MappedId(last.h, j) => i = j

\* disk_inode.clear_size(&dev) of h when it is the next call: [m, di, v]
ClearSizeOf(h) == DiskInode_clear_size(Contents(queue, dev), DiskInodeView(h))

\* c = [m, di, v] is what clear_size of h returns: v lists every block that
\* h refers to once, as many as total_blocks(size), and di is empty
ClearSizeRight(h, c) ==
  /\ c.m.panic = NoPanic
  /\ Len(c.v) = DiskInode_total_blocks(SizeOf(queue, dev, h))
  /\ \A i, j \in 1..Len(c.v) : c.v[i] = c.v[j] => i = j
  /\ Range(c.v) = Range(RefsOf(queue, dev, h))
  /\ c.di.size = 0 /\ c.di.indirect1 = 0 /\ c.di.indirecr2 = 0
  /\ \A i \in 1..INODE_DIRECT_COUNT : c.di.direct[i] = 0

\* C29: DiskInode::clear_size of a file returns every block id reachable from
\* its DiskInode exactly once, total_blocks(size) ids in all, so that the
\* assertion of Inode::clear holds; it leaves size, direct, indirect1 and
\* indirect2 zero.
C29_ClearSize == mounted => \A h \in files : ClearSizeRight(h, ClearSizeOf(h))

(* ------------------------- locks of the block cache -------------------- *)
\* Threads that work on different images (or make one) share
\* BLOCK_CACHE_MANAGER and no Mutex<TinyFileSystem>.  Their operations are
\* followed lock by lock: `get` is get_block_cache (the manager mutex is
\* taken and released inside it), `lock` and `unlock` are the life of the
\* MutexGuard of a BlockCache, `sync` is block_cache_sync_all.
ImageFs == create_layout(DEVICE_BLOCKS, 1).fs

\* Inode::write_at of the first file of an image: modify_disk_inode locks
\* its inode block; inside the closure increase_size allocates a data block
\* (Bitmap::alloc) and DiskInode::write_at writes it; then sync_all
WriteAtSteps ==
  << <<"get", get_disk_inode_pos(ImageFs, 1).block_id>>,
     <<"lock", get_disk_inode_pos(ImageFs, 1).block_id>>,
     <<"get", ImageFs.data_bitmap.start_block_id>>,
     <<"lock", ImageFs.data_bitmap.start_block_id>>,
     <<"unlock", ImageFs.data_bitmap.start_block_id>>,
     <<"get", get_data_block_id(ImageFs, 1)>>,
     <<"lock", get_data_block_id(ImageFs, 1)>>,
     <<"unlock", get_data_block_id(ImageFs, 1)>>,
     <<"unlock", get_disk_inode_pos(ImageFs, 1).block_id>>,
     <<"sync", 0>> >>

\* TinyFileSystem::create from the SuperBlock on: the SuperBlock, the root's
\* bit of the inode bitmap, the root DiskInode; then sync_all
CreateSteps ==
  << <<"get", 0>>, <<"lock", 0>>, <<"unlock", 0>>,
     <<"get", ImageFs.inode_bitmap.start_block_id>>,
     <<"lock", ImageFs.inode_bitmap.start_block_id>>,
     <<"unlock", ImageFs.inode_bitmap.start_block_id>>,
     <<"get", get_disk_inode_pos(ImageFs, 0).block_id>>,
     <<"lock", get_disk_inode_pos(ImageFs, 0).block_id>>,
     <<"unlock", get_disk_inode_pos(ImageFs, 0).block_id>>,
     <<"sync", 0>> >>

StepsOf(op) == IF op = "write_at" THEN WriteAtSteps ELSE CreateSteps

Running(t) == threads[t].at \in {"running", "syncing"}

\* the next step of thread t
StepOf(t) == StepsOf(threads[t].op)[threads[t].pc]

\* the thread inside block_cache_sync_all, which holds the manager mutex;
\* 0 when there is none
ManagerHolder ==
  IF \E t \in Threads : threads[t].at = "syncing"
    THEN CHOOSE t \in Threads : threads[t].at = "syncing" ELSE 0

\* the thread that holds the mutex of the BlockCache of block_id, or 0
CacheHolder(block_id) ==
  IF \E t \in Threads : Running(t) /\ block_id \in threads[t].holds
    THEN CHOOSE t \in Threads : Running(t) /\ block_id \in threads[t].holds
    ELSE 0

LockFrame == UNCHANGED <<dropped, mounted, fs, files, panic, last, prev, created, calls, fs_lock, handles, dev_b>>

\* thread t starts write_at on its image, or TinyFileSystem::create
LockCall(t, op) ==
  /\ threads[t].at = "idle"
  /\ threads' = [threads EXCEPT ![t] = [at |-> "running", op |-> op, pc |-> 1, holds |-> {}, i |-> 0]]
  /\ UNCHANGED <<queue, dev>>
  /\ LockFrame

\* BLOCK_CACHE_MANAGER.lock().get_block_cache(block_id, ..)
StepGet(t) ==
  /\ threads[t].at = "running" /\ StepOf(t)[1] = "get"
  /\ Mutex_lock(ManagerHolder)
  /\ queue' = BlockCacheManager_get_block_cache(Mach, StepOf(t)[2]).queue
  /\ dev' = BlockCacheManager_get_block_cache(Mach, StepOf(t)[2]).dev
  /\ threads' = [threads EXCEPT ![t].pc = @ + 1]
  /\ LockFrame

\* .lock() on the Arc<Mutex<BlockCache>>
StepLock(t) ==
  /\ threads[t].at = "running" /\ StepOf(t)[1] = "lock"
  /\ Mutex_lock(CacheHolder(StepOf(t)[2]))
  /\ threads' = [threads EXCEPT ![t].pc = @ + 1, ![t].holds = @ \cup {StepOf(t)[2]}]
  /\ UNCHANGED <<queue, dev>>
  /\ LockFrame

\* the MutexGuard is dropped at the end of the statement
StepUnlock(t) ==
  /\ threads[t].at = "running" /\ StepOf(t)[1] = "unlock"
  /\ threads' = [threads EXCEPT ![t].pc = @ + 1, ![t].holds = @ \ {StepOf(t)[2]}]
  /\ UNCHANGED <<queue, dev>>
  /\ LockFrame

\* let manager = BLOCK_CACHE_MANAGER.lock()
StepSyncBegin(t) ==
  /\ threads[t].at = "running" /\ StepOf(t)[1] = "sync"
  /\ Mutex_lock(ManagerHolder)
  /\ threads' = [threads EXCEPT ![t].at = "syncing", ![t].i = 1]
  /\ UNCHANGED <<queue, dev>>
  /\ LockFrame

\* cache.lock().sync() of the i-th entry of the queue
StepSyncEntry(t) ==
  /\ threads[t].at = "syncing" /\ threads[t].i <= Len(queue)
  /\ Mutex_lock(CacheHolder(queue[threads[t].i].block_id))
  /\ queue' = [queue EXCEPT ![threads[t].i] = BlockCache_sync(dev, @).e]
  /\ dev' = BlockCache_sync(dev, queue[threads[t].i]).dev
  /\ threads' = [threads EXCEPT ![t].i = @ + 1]
  /\ LockFrame

\* the loop is over: `manager` is dropped and the operation returns
StepSyncEnd(t) ==
  /\ threads[t].at = "syncing" /\ threads[t].i > Len(queue)
  /\ threads' = [threads EXCEPT ![t].at = "done"]
  /\ UNCHANGED <<queue, dev>>
  /\ LockFrame

NextLocks ==
  \/ \E t \in Threads, op \in {"write_at", "tfs_create"} : LockCall(t, op)
  \/ \E t \in Threads : StepGet(t)
  \/ \E t \in Threads : StepLock(t)
  \/ \E t \in Threads : StepUnlock(t)
  \/ \E t \in Threads : StepSyncBegin(t)
  \/ \E t \in Threads : StepSyncEntry(t)
  \/ \E t \in Threads : StepSyncEnd(t)

SpecLocks == Init /\ [][NextLocks]_vars

\* thread a holds the mutex of a BlockCache and spins on the manager mutex,
\* which thread b holds
SpinsOnManager(a, b) ==
  /\ threads[a].at = "running" /\ StepOf(a)[1] \in {"get", "sync"}
  /\ threads[a].holds # {}
  /\ ManagerHolder = b

\* thread b is in block_cache_sync_all and waits for the mutex of a
\* BlockCache that thread a holds
SyncWaitsFor(b, a) ==
  /\ threads[b].at = "syncing" /\ threads[b].i <= Len(queue)
  /\ queue[threads[b].i].block_id \in threads[a].holds

\* C30: no state is reached in which a thread spins on the manager mutex
\* while it holds the mutex of a BlockCache that another thread, holding the
\* manager mutex inside block_cache_sync_all, is waiting for (from such a
\* state neither operation returns).
C30_NoDeadlock ==
  \A a, b \in Threads : (a # b /\ Running(a)) => ~(SpinsOnManager(a, b) /\ SyncWaitsFor(b, a))

(* --------------------------- data allocation --------------------------- *)
\* alloc_data returned r = [m, id]
DataAllocated(r) ==
  /\ Commit(r.m, "alloc", [Call("alloc_data", NoInode) EXCEPT !.n = r.id])
  /\ UNCHANGED <<mounted, fs, files, created>>

\* fs.lock().alloc_data()
AllocData ==
  /\ panic = NoPanic /\ mounted /\ calls["alloc"] < MaxAllocs
  /\ DataAllocated(alloc_data(Mach, fs))

\* images of several sizes are made, and data blocks allocated in them
NextAlloc ==
  \/ \E ibb \in 1..MaxInodeBitmapBlocks :
       \E total \in ImageSizes(ibb) : CreateImage(total, ibb)
  \/ AllocData

SpecAlloc == Init /\ [][NextAlloc]_vars

\* block id lies in the data area that SuperBlock sb and f describe, and in
\* the image
InDataArea(id, sb, f) ==
  /\ f.data_area_start_block <= id
  /\ id < f.data_area_start_block + sb.data_area_blocks
  /\ id < sb.total_blocks

\* C31: a block id that alloc_data returns lies in the data area of the
\* image, data_area_start_block <= id < data_area_start_block +
\* data_area_blocks, and is smaller than total_blocks.
C31_AllocDataInArea ==
  (last.op = "alloc_data" /\ panic = NoPanic)
    => InDataArea(last.n, SuperBlockOf(queue, dev), fs)

(* ----------------------------- two devices ----------------------------- *)
\* A process that has two BlockFiles open and reads blocks of both through
\* get_block_cache.  The blocks of the first device are filled with the byte
\* 1, those of the second with the byte 2; a device is named by its byte.
MaxDeviceGets == 4
DevicePats == {1, 2}
DeviceBlocks == 0..2

FilledDevice(pat) == [i \in DeviceBlocks |-> [k \in 1..BLOCK_SZ |-> pat]]

DeviceOf(pat) == IF pat = 1 THEN dev ELSE dev_b

InitDevices ==
  /\ queue = <<>>
  /\ dev = FilledDevice(1)
  /\ dev_b = FilledDevice(2)
  /\ dropped = {}
  /\ mounted = FALSE
  /\ fs = NoFs
  /\ files = {}
  /\ panic = NoPanic
  /\ last = NoCall
  /\ prev = NoCall
  /\ created = <<>>
  /\ calls = [k \in Kinds |-> 0]
  /\ fs_lock = 0
  /\ threads = [t \in Threads |-> Idle]
  /\ handles = <<>>

\* get_block_cache(block_id, device pat) left the machine m; the caller
\* copies the buffer of the handle it got and drops the handle
DeviceGot(m, pat, block_id) ==
  /\ queue' = m.queue
  /\ dev' = IF pat = 1 THEN m.dev ELSE dev
  /\ dev_b' = IF pat = 2 THEN m.dev ELSE dev_b
  /\ dropped' = m.dropped
  /\ panic' = m.panic
  /\ last' = [NoCall EXCEPT !.op = "get_block_cache", !.n = block_id, !.pat = pat,
                            !.data = IF Ok(m) THEN CacheOf(m, block_id) ELSE <<>>]
  /\ prev' = last
  /\ calls' = [calls EXCEPT !["get"] = @ + 1]
  /\ UNCHANGED <<mounted, fs, files, created, fs_lock, threads, handles>>

\* get_block_cache(block_id, Arc::clone(&device)).lock().read(..): the
\* manager is the one BLOCK_CACHE_MANAGER of the process, the device is used
\* by BlockCache::new on a miss.  The pool never fills here, so no entry is
\* evicted.
DeviceGet(pat, block_id) ==
  /\ panic = NoPanic /\ ~mounted /\ calls["get"] < MaxDeviceGets
  /\ DeviceGot(GetBlockCache([Mach EXCEPT !.dev = DeviceOf(pat)], block_id), pat, block_id)

NextDevices == \E pat \in DevicePats : \E block_id \in DeviceBlocks : DeviceGet(pat, block_id)

SpecDevices == InitDevices /\ [][NextDevices]_vars

\* C32: the handle get_block_cache(id, dev) returns caches block id of the
\* device that was passed: the buffer read through it holds the bytes of
\* block id of that device, never those of the same block of the other one.
C32_CacheOfDevice ==
  (last.op = "get_block_cache" /\ last.pat \in DevicePats /\ panic = NoPanic)
    => last.data = read_block(DeviceOf(last.pat), last.n)


(* ----------------------------- empty writes ---------------------------- *)
\* (offset, length) of write_at calls: writes of no bytes at the start and
\* at the end of a file of 15 bytes, a write of 15 bytes, and a write that
\* replaces every entry of the pool
EmptyArgs == {<<0, 0>>, <<15, 0>>, <<0, 15>>, <<0, BLOCK_CACHE_SIZE * BLOCK_SZ>>}

NextEmpty ==
  \/ TfsCreate
  \/ \E name \in Names : May("create", MaxCreates) /\ Create(name)
  \/ \E h \in files, a \in EmptyArgs, pat \in Patterns :
       May("write", MaxWrites) /\ WriteAt(h, a[1], a[2], pat)

SpecEmpty == Init /\ [][NextEmpty]_vars

\* the step is a write_at of an empty buffer at an offset within the file
EmptyWriteStep ==
  Calls("write_at", "write") /\ last'.len = 0 /\ last'.off <= last'.old_size

\* the ids of the blocks in the pool q
PoolIds(q) == {q[i].block_id : i \in 1..Len(q)}

\* the block of the inode of h and the blocks its DiskInode references
OwnedBlocks(h) ==
  {h.block_id} \cup {RefsOf(queue, dev, h)[i] : i \in 1..Len(RefsOf(queue, dev, h))}

\* C33: write_at with an empty buffer at an offset <= size returns 0, leaves
\* the size and the bytes of the file as they are, does not panic, and
\* brings into the pool no block other than the inode's block and blocks the
\* inode owns.
C33_EmptyWrite ==
  [][EmptyWriteStep =>
       /\ panic' = NoPanic
       /\ last'.n = 0
       /\ SizeOf(queue', dev', last'.h) = last'.old_size
       /\ FileBytes(queue', dev', last'.h) = FileBytes(queue, dev, last'.h)
       /\ (PoolIds(queue') \ PoolIds(queue)) \subseteq OwnedBlocks(last'.h)]_vars

====
